---- MODULE Spec2Model ----
(***************************************************************************)
(* A model of the Policy-Summary-Assistant document pipeline.              *)
(*                                                                         *)
(*   SpecCompliance  utils/compilance_checker.py  (ComplianceChecker)      *)
(*   Spec            summary_agent.py (PolicySummaryAgent) and             *)
(*                   utils/summarizer.py (PolicySummarizer); a run drives  *)
(*                   one of the two entry points; and the pure text        *)
(*                   functions of summary_agent.py, file_processor.py,     *)
(*                   utils/document_processor.py and                       *)
(*                   utils/entity_extractor.py, applied to drawn inputs    *)
(*   SpecConcurrent  summary_agent.py: several requests of one agent,      *)
(*                   interleaved at their suspension points, as far as     *)
(*                   they touch the agent's shared state                   *)
(*                                                                         *)
(* For the compliance checker a text is a sequence of words; Python's      *)
(* substring test `kw in text` is the contiguous-subsequence test on that  *)
(* sequence, and str.lower() is the word-wise lowering table Lower.        *)
(***************************************************************************)
EXTENDS Integers, Sequences, FiniteSets, TLC

VARIABLES
    \* --- ComplianceChecker ---
    cc_text,      \* the text handed to check_policy_compliance
    cc_pc,        \* "input" before the call, "checked" after it returned,
                  \* "recommended" after get_recommendations returned
    cc_report,    \* the `results` dict of check_policy_compliance
    cc_recommendations,   \* the list get_recommendations returned
    \* --- PolicySummaryAgent (the object) ---
    summarizer,       \* self.summarizer: 0 is None, n > 0 the n-th pipeline built
    model_loaded,     \* self._model_loaded
    \* --- one summarize_policy_document request ---
    entry,            \* the entry point this run drives
    req,              \* number of requests started so far
    pc,               \* where the request's coroutine is suspended
    fast_pc,          \* where _generate_fast_summary is suspended
    doc,              \* the document behind file_path
    chunks,           \* chunks (smart_chunking's list)
    policy_sections,  \* policy_sections (extract_policy_sections' dict)
    calls,            \* every capability call issued, in issue order
    completion,       \* call ids in the order the calls completed
    fast_result,      \* return value of _generate_fast_summary
    combined_summary, \* combined_summary
    refined_summary,  \* refined_summary
    summary_text,     \* summary_text
    summarized_sections, \* summarized_sections
    result,           \* the dict the request returned
    steps,            \* the steps the request has entered, in order
    raised_at,        \* the step whose exception reached the top-level handler
    timed_out,        \* the 30 s budget of wait_for expired
    \* --- PolicySummarizer.summarize_policy_async ---
    ps_pc,            \* "idle", "gathering" or "done"
    ps_chunks,        \* chunks
    ps_tasks,         \* the tasks gather created, one per chunk
    ps_completion,    \* task indexes in the order the tasks ended
    ps_result,        \* the list summarize_policy_async returned
    \* --- one call of a pure text function ---
    fcall,            \* [fn, input, output] of the call made, fn = "" before it
    \* --- concurrent summarize_policy_document coroutines of one agent ---
    coroutines,       \* per coroutine: where it is suspended, the handles its
                      \* capability calls used
    started           \* number of requests started so far

ccVars == <<cc_text, cc_pc, cc_report, cc_recommendations>>
objVars == <<summarizer, model_loaded>>
reqVars == <<entry, req, pc, fast_pc, doc, chunks, policy_sections, calls,
             completion, fast_result, combined_summary, refined_summary,
             summary_text, summarized_sections, result, steps, raised_at,
             timed_out>>
psVars == <<ps_pc, ps_chunks, ps_tasks, ps_completion, ps_result>>
fnVars == <<fcall>>
coVars == <<coroutines, started>>
vars == <<ccVars, objVars, reqVars, psVars, fnVars, coVars>>

(***************************************************************************)
(* Generic helpers                                                         *)
(***************************************************************************)
Max(a, b) == IF a >= b THEN a ELSE b
Min(a, b) == IF a <= b THEN a ELSE b

\* Python `needle in haystack` on strings, at word granularity.
Contains(haystack, needle) ==
    \E i \in 1..(Len(haystack) - Len(needle) + 1) :
        SubSeq(haystack, i, i + Len(needle) - 1) = needle

\* str.lower() of one word of the vocabulary.
LowerWord(w) ==
    CASE w = "Policy"       -> "policy"
      [] w = "Number"       -> "number"
      [] w = "START"        -> "start"
      [] w = "Amount"       -> "amount"
      [] w = "Due"          -> "due"
      [] w = "Notification" -> "notification"
      [] w = "Unlimited"    -> "unlimited"
      [] w = "Liability"    -> "liability"
      [] w = "SOLE"         -> "sole"
      [] w = "Reasonable"   -> "reasonable"
      [] w = "Premium"      -> "premium"
      [] OTHER              -> w

\* text.lower()
Lower(text) == [i \in 1..Len(text) |-> LowerWord(text[i])]

(***************************************************************************)
(* ComplianceChecker.check_policy_compliance                               *)
(***************************************************************************)
\* The keys of sections_to_check, in dict (insertion) order.
SectionOrder ==
    <<"policy_number", "effective_date", "coverage", "premium",
      "exclusions", "claims", "conditions">>

\* sections_to_check: category -> keyword list.
SectionKeywords(section) ==
    CASE section = "policy_number"  ->
            {<<"policy", "number">>, <<"policy", "no">>, <<"policy", "#">>}
      [] section = "effective_date" ->
            {<<"effective", "date">>, <<"start", "date">>, <<"commencement">>}
      [] section = "coverage"       ->
            {<<"coverage">>, <<"insured">>, <<"protection">>}
      [] section = "premium"        ->
            {<<"premium">>, <<"payment">>, <<"amount", "due">>}
      [] section = "exclusions"     ->
            {<<"exclusion">>, <<"not", "covered">>, <<"exception">>}
      [] section = "claims"         ->
            {<<"claim">>, <<"report">>, <<"notification">>}
      [] section = "conditions"     ->
            {<<"condition">>, <<"requirement">>, <<"obligation">>}

\* risk_indicators, in list order.
RiskIndicators ==
    << [risk_level |-> "high",   phrase |-> <<"unlimited", "liability">>,
        description |-> "No limit on liability exposure"],
       [risk_level |-> "high",   phrase |-> <<"absolute", "liability">>,
        description |-> "Liability regardless of fault"],
       [risk_level |-> "medium", phrase |-> <<"sole", "discretion">>,
        description |-> "One-sided decision power"],
       [risk_level |-> "medium", phrase |-> <<"automatic", "renewal">>,
        description |-> "May auto-renew without notice"],
       [risk_level |-> "low",    phrase |-> <<"reasonable">>,
        description |-> "Subjective terms may vary"] >>

InitialScore == 100
MissingSectionPenalty == 10
HighRiskPenalty == 15
MediumRiskPenalty == 5
CompliantThreshold == 80
ReviewThreshold == 60

\* `found = any(keyword in text_lower for keyword in keywords)`
SectionFound(text_lower, section) ==
    \E keyword \in SectionKeywords(section) : Contains(text_lower, keyword)

\* The first loop: results after the first n entries of sections_to_check.
RECURSIVE CheckSections(_, _, _)
CheckSections(text_lower, results, n) ==
    IF n = 0 THEN results
    ELSE LET prev    == CheckSections(text_lower, results, n - 1)
             section == SectionOrder[n]
             found   == SectionFound(text_lower, section)
         IN  [prev EXCEPT
                !.section_presence =
                    [s \in DOMAIN prev.section_presence \cup {section} |->
                        IF s = section THEN found ELSE prev.section_presence[s]],
                !.compliance_score =
                    IF found THEN @ ELSE @ - MissingSectionPenalty]

RiskPenalty_LowPenalised(risk_level) ==
    IF risk_level = "high" THEN HighRiskPenalty ELSE MediumRiskPenalty

\* The if/elif on risk_level inside the second loop.
RiskPenalty(risk_level) ==
    IF risk_level = "high" THEN HighRiskPenalty
    ELSE IF risk_level = "medium" THEN MediumRiskPenalty
    ELSE 0

\* The second loop: results after the first n entries of risk_indicators.
RECURSIVE CheckRisks(_, _, _)
CheckRisks(text_lower, results, n) ==
    IF n = 0 THEN results
    ELSE LET prev == CheckRisks(text_lower, results, n - 1)
             ind  == RiskIndicators[n]
         IN  IF Contains(text_lower, ind.phrase)
             THEN [prev EXCEPT
                     !.risk_flags = Append(@, ind),
                     !.compliance_score = @ - RiskPenalty(ind.risk_level)]
             ELSE prev

ClampScore_NoFloor(score) == Min(InitialScore, score)

\* `max(0, min(100, score))`
ClampScore(score) == Max(0, Min(100, score))

StatusOf_Strict(score) ==
    IF score > CompliantThreshold THEN "COMPLIANT"
    ELSE IF score > ReviewThreshold THEN "REVIEW RECOMMENDED"
    ELSE "NEEDS ATTENTION"

\* The final if/elif/else on the clamped score.
StatusOf(score) ==
    IF score >= CompliantThreshold THEN "COMPLIANT"
    ELSE IF score >= ReviewThreshold THEN "REVIEW RECOMMENDED"
    ELSE "NEEDS ATTENTION"

\* The `results` dict as first built.
InitialResults ==
    [section_presence |-> [s \in {} |-> FALSE],
     risk_flags       |-> <<>>,
     compliance_score |-> InitialScore,
     status           |-> "COMPLIANT"]

check_policy_compliance(text) ==
    LET text_lower == Lower(text)
        r1 == CheckSections(text_lower, InitialResults, Len(SectionOrder))
        r2 == CheckRisks(text_lower, r1, Len(RiskIndicators))
        r3 == [r2 EXCEPT !.compliance_score = ClampScore(@)]
    IN  [r3 EXCEPT !.status = StatusOf(r3.compliance_score)]

(***************************************************************************)
(* ComplianceChecker.get_recommendations                                   *)
(***************************************************************************)
ProfessionalReviewBelow == 70
SpecialistReviewBelow == 85

\* A recommendation: its text and, for the first kind, the keys that
\* ', '.join(missing) lists after it.
Recommendation(text) == [text |-> text, sections |-> <<>>]

get_recommendations_IgnoresHighRisk(check_results) ==
    LET missing    == SelectSeq(SectionOrder,
                          LAMBDA k : ~check_results.section_presence[k])
        high_risks == SelectSeq(check_results.risk_flags,
                          LAMBDA f : f.risk_level = "high")
        score      == check_results.compliance_score
        recommendations ==
            (IF missing # <<>>
             THEN <<[text |-> "Add missing sections: ", sections |-> missing]>>
             ELSE <<>>)
            \o (IF score < ProfessionalReviewBelow
                THEN <<Recommendation("Consider professional policy review")>>
                ELSE IF score < SpecialistReviewBelow
                THEN <<Recommendation("Review with insurance specialist")>>
                ELSE <<>>)
    IN  IF recommendations = <<>>
        THEN <<Recommendation("Policy appears comprehensive")>>
        ELSE recommendations

get_recommendations(check_results) ==
    LET missing    == SelectSeq(SectionOrder,
                          LAMBDA k : ~check_results.section_presence[k])
        high_risks == SelectSeq(check_results.risk_flags,
                          LAMBDA f : f.risk_level = "high")
        score      == check_results.compliance_score
        recommendations ==
            (IF missing # <<>>
             THEN <<[text |-> "Add missing sections: ", sections |-> missing]>>
             ELSE <<>>)
            \o (IF high_risks # <<>>
                THEN <<Recommendation("Review high-risk terms with legal expert")>>
                ELSE <<>>)
            \o (IF score < ProfessionalReviewBelow
                THEN <<Recommendation("Consider professional policy review")>>
                ELSE IF score < SpecialistReviewBelow
                THEN <<Recommendation("Review with insurance specialist")>>
                ELSE <<>>)
    IN  IF recommendations = <<>>
        THEN <<Recommendation("Policy appears comprehensive")>>
        ELSE recommendations

(***************************************************************************)
(* Input texts of the compliance checker: every selection of the fragments *)
(* below, concatenated in table order.                                     *)
(***************************************************************************)
Fragments ==
    << <<"Policy", "Number">>,
       <<"START", "date">>,
       <<"insured">>,
       <<"Amount", "Due">>,
       <<"not", "covered">>,
       <<"Notification">>,
       <<"obligation">>,
       <<"Unlimited", "Liability">>,
       <<"absolute", "liability">>,
       <<"SOLE", "discretion">>,
       <<"automatic", "renewal">>,
       <<"Reasonable">>,
       <<"the", "Premium">> >>

RECURSIVE JoinFragments(_, _)
JoinFragments(chosen, n) ==
    IF n = 0 THEN <<>>
    ELSE JoinFragments(chosen, n - 1)
            \o (IF n \in chosen THEN Fragments[n] ELSE <<>>)

ComplianceTexts ==
    {JoinFragments(chosen, Len(Fragments)) : chosen \in SUBSET (1..Len(Fragments))}

(***************************************************************************)
(* Texts of the summarization pipeline.                                    *)
(*                                                                         *)
(* The pipeline only splits texts into words, counts, slices and joins     *)
(* them, so a text is a sequence of segments, and a segment [src, lo, hi]  *)
(* is the words lo..hi of the source src.  The capability is opaque: the   *)
(* summary of a text X is a fresh source that remembers X.                 *)
(***************************************************************************)
Source(kind, name, of) == [kind |-> kind, name |-> name, of |-> of]

Words(src, lo, hi) ==
    IF hi < lo THEN <<>> ELSE <<[src |-> src, lo |-> lo, hi |-> hi]>>

\* len(text.split())
RECURSIVE WordCount(_)
WordCount(text) ==
    IF text = <<>> THEN 0
    ELSE (Head(text).hi - Head(text).lo + 1) + WordCount(Tail(text))

\* text.split()[:n]
RECURSIVE Take(_, _)
Take(text, n) ==
    IF n <= 0 \/ text = <<>> THEN <<>>
    ELSE LET h    == Head(text)
             size == h.hi - h.lo + 1
         IN  IF size <= n THEN <<h>> \o Take(Tail(text), n - size)
             ELSE <<[h EXCEPT !.hi = h.lo + n - 1]>>

\* text.split()[n:]
RECURSIVE Drop(_, _)
Drop(text, n) ==
    IF text = <<>> THEN <<>>
    ELSE IF n <= 0 THEN text
    ELSE LET h    == Head(text)
             size == h.hi - h.lo + 1
         IN  IF size <= n THEN Drop(Tail(text), n - size)
             ELSE <<[h EXCEPT !.lo = h.lo + n]>> \o Tail(text)

\* words[i:j]
Slice(words, i, j) == Take(Drop(words, i), j - i)

\* " ".join([a, b])
Join(a, b) == a \o b

\* " ".join(texts)
RECURSIVE JoinAll(_)
JoinAll(texts) ==
    IF texts = <<>> THEN <<>> ELSE Join(Head(texts), JoinAll(Tail(texts)))

\* A "..." glued to the last word: it adds no word.
EllipsisMark == [src |-> Source("...", "", <<>>), lo |-> 1, hi |-> 0]

(***************************************************************************)
(* Documents.  A document is what the pipeline can observe of it: the      *)
(* length of the stripped raw text, the words left after clean_text, the   *)
(* number of words before the earliest chunking keyword (-1: no keyword)   *)
(* and the number of section headings with enough content.                 *)
(***************************************************************************)
MaxRequests == 2
MaxSections == 2
ShortSummaryWords == 30
MaxSummaryWords == 250

NoDoc == [chars |-> 0, words |-> 0, keyword_at |-> -1, sections |-> 0]

Docs ==
    { NoDoc,
      [chars |-> 99,    words |-> 15,   keyword_at |-> -1, sections |-> 0],
      [chars |-> 100,   words |-> 0,    keyword_at |-> -1, sections |-> 0],
      [chars |-> 900,   words |-> 150,  keyword_at |-> -1, sections |-> 0],
      [chars |-> 12000, words |-> 1900, keyword_at |-> 0,  sections |-> 0] }
    \cup
    { [chars |-> 20000, words |-> 3000, keyword_at |-> 40, sections |-> n] :
        n \in 0..MaxSections }

\* The lengths a summary returned by the capability may have.
SummaryLengths == {ShortSummaryWords, MaxSummaryWords}

MinTextChars == 100

\* `not raw_text or len(raw_text.strip()) < 100`
IsNearEmpty_OnlyEmpty(d) == d.chars = 0

IsNearEmpty(d) == d.chars = 0 \/ d.chars < MinTextChars

\* FileProcessor.clean_text, as far as the pipeline sees it: the words kept.
clean_text(d) == Words(Source("document", "", <<>>), 1, d.words)

ChunkSize == 1000
ChunkOverlap == 50
MaxChunks == 3

\* The for loop of smart_chunking, from word offset i on.
RECURSIVE ChunkLoop(_, _, _)
ChunkLoop(words, i, acc) ==
    IF i >= WordCount(words) THEN acc
    ELSE LET acc2 == Append(acc, Slice(words, i, i + ChunkSize))
         IN  IF Len(acc2) >= MaxChunks THEN acc2
             ELSE ChunkLoop(words, i + (ChunkSize - ChunkOverlap), acc2)

\* FileProcessor.smart_chunking(text) with its default chunk_size and overlap.
smart_chunking(text, keyword_at) ==
    IF text = <<>> THEN <<>>
    ELSE IF WordCount(text) <= ChunkSize THEN <<text>>
    ELSE LET words == IF keyword_at >= 0 THEN Drop(text, keyword_at) ELSE text
         IN  ChunkLoop(words, 0, <<>>)

\* The titles of the heading pattern, in pattern order.
SectionTitlePattern ==
    <<"LOSS OF OR DAMAGE TO YOUR VEHICLE", "YOUR LIABILITY",
      "OPTIONAL COVER LIMITS", "POLICY COVERAGE", "EXCLUSIONS",
      "CLAIMS PROCEDURE", "GENERAL CONDITIONS">>

\* FileProcessor.extract_policy_sections, as far as the pipeline sees it:
\* title -> content, in insertion order; the first content is shorter than
\* an excerpt, the others longer.
extract_policy_sections(d) ==
    IF IsNearEmpty(d) THEN <<>>
    ELSE [i \in 1..d.sections |->
            [title   |-> SectionTitlePattern[i],
             content |-> Words(Source("section", SectionTitlePattern[i], <<>>),
                               1, IF i = 1 THEN 40 ELSE 300)]]

(***************************************************************************)
(* Capability calls.                                                       *)
(***************************************************************************)
ExcerptWords == 100
ResummarizeThreshold == 600
FanoutLimit == 3
TargetWords == 500

RefinePrefix  == Words(Source("refine_prefix", "", <<>>), 1, 15)
SectionPrefix == Words(Source("section_prefix", "", <<>>), 1, 9)
NoContent     == Words(Source("No content available.", "", <<>>), 1, 3)

\* One invocation of self.summarizer(...) through run_in_executor.
\* arg is the helper's `text` parameter, input what the capability is given.
NewCall(purpose, index, arg, input, max_length, min_length, handle) ==
    [purpose |-> purpose, index |-> index, arg |-> arg, input |-> input,
     max_length |-> max_length, min_length |-> min_length,
     handle |-> handle, state |-> "running", output |-> <<>>]

\* The call _summarize_chunk(text) issues.
SummarizeChunkCall(purpose, index, text, handle) ==
    LET max_len == Min(180, Max(80, WordCount(text) \div 3))
        min_len == Min(60, max_len \div 2)
    IN  NewCall(purpose, index, text, text, max_len, min_len, handle)

\* The call _refine_summary_style(text) issues.
RefineCall(text, handle) ==
    NewCall("refine", 0, text, Join(RefinePrefix, text), 512, 300, handle)

\* [0]['summary_text'] of a call that returned n words.
SummaryOf(call, n) == Words(Source("summary", "", call.input), 1, n)

Finished(call) == call.state \in {"returned", "raised"}

\* Exceptions: a class and str(e).
Exc(class, msg) == [class |-> class, msg |-> msg]
NoExc == Exc("", "")
CapabilityError == Exc("RuntimeError", "capability failed")
\* asyncio.wait_for raises TimeoutError() without arguments: str(e) = "".
WaitForTimeout == Exc("TimeoutError", "")
StepError(step) ==
    IF step = "load_model" THEN Exc("Exception", "Failed to load model: ...")
    ELSE Exc("Exception", "unexpected error")
\* The classes that derive from BaseException but not from Exception.
BaseOnlyClasses == {"CancelledError", "KeyboardInterrupt", "SystemExit"}

\* What a coroutine ends with: a value or an exception.
Ok(value) == [ok |-> TRUE, value |-> value, exc |-> NoExc]
Err(e)    == [ok |-> FALSE, value |-> <<>>, exc |-> e]

TopLevelCatches_OnlyTimeout(e) == e.class = "TimeoutError"

\* `except Exception as e` around the body of summarize_policy_document.
TopLevelCatches(e) == e.class \notin BaseOnlyClasses

SummarizeChunkOutcome_NoFallback(call) ==
    IF call.state = "returned" THEN Ok(call.output) ELSE Err(CapabilityError)

\* _summarize_chunk, once its call finished: the summary, or on an exception
\* the first 100 words of `text`.
SummarizeChunkOutcome(call) ==
    IF call.state = "returned" THEN Ok(call.output)
    ELSE Ok(Take(call.arg, ExcerptWords))

RefineOutcome_KeepsPrefix(call) ==
    IF call.state = "returned" THEN Ok(call.output) ELSE Ok(call.input)

\* _refine_summary_style, once its call finished: the summary, or on an
\* exception `text`.
RefineOutcome(call) ==
    IF call.state = "returned" THEN Ok(call.output) ELSE Ok(call.arg)

GatherResults_CompletionOrder(outcomes, order) ==
    [j \in 1..Len(order) |-> outcomes[order[j]]]

\* asyncio.gather(*tasks, return_exceptions=True): the results in the order
\* of the tasks, whatever the order they completed in.
GatherResults(outcomes, order) == outcomes

\* `[r for r in results if isinstance(r, str)]`
RECURSIVE ValidResults(_)
ValidResults(results) ==
    IF results = <<>> THEN <<>>
    ELSE (IF Head(results).ok THEN <<Head(results).value>> ELSE <<>>)
            \o ValidResults(Tail(results))

\* PolicySummaryAgent._adjust_word_count.  end_word is the number of words
\* up to the last '.', '!' or '?' of the truncated text, -1 if it has none.
adjust_word_count(summary, target_words, end_word) ==
    IF summary = <<>> THEN <<>>
    ELSE IF WordCount(summary) <= target_words THEN summary
    ELSE LET truncated == Take(summary, target_words)
         IN  IF end_word # -1 THEN Take(truncated, end_word)
             ELSE truncated \o <<EllipsisMark>>

\* Where the last sentence terminator of a truncated text may lie.
TerminatorChoices == {-1, 1, TargetWords}

\* `content[:400] + "..."`: at most 400 characters, hence at most 200 words.
SectionExcerpt(content) ==
    Words(Source("content[:400]", "", content), 1, Min(WordCount(content), 200))
        \o <<EllipsisMark>>

NoResult ==
    [success |-> FALSE, error |-> [prefix |-> "", detail |-> ""], summary |-> <<>>]
EmptyDocumentResult ==
    [success |-> FALSE,
     error   |-> [prefix |-> "Document appears empty", detail |-> ""],
     summary |-> <<>>]
FailureResult(e) ==
    [success |-> FALSE,
     error   |-> [prefix |-> "Summarization failed: ", detail |-> e.msg],
     summary |-> <<>>]
SuccessResult(text, sections, d) ==
    [success |-> TRUE, summary |-> text, policy_sections |-> sections,
     word_count |-> WordCount(text), original_length |-> d.words]

(***************************************************************************)
(* PolicySummaryAgent.summarize_policy_document                            *)
(*                                                                         *)
(* One action per stretch of the coroutine between two suspension points,  *)
(* plus the completions of the capability calls (which run in the          *)
(* executor's threads) and the expiry of wait_for's budget.  A step of a   *)
(* synchronous stretch may raise: `failing` names the step that does.      *)
(***************************************************************************)
Agent == "PolicySummaryAgent"

textVars == <<fast_result, combined_summary, refined_summary, summary_text,
              summarized_sections>>

FirstBlock  == <<"clean_text", "smart_chunking", "load_model",
                 "extract_policy_sections">>
SecondBlock == <<"_adjust_word_count", "structuring", "_extract_key_findings">>
FinalBlock  == <<"readability", "sentiment">>

StepsOf(block) == {block[i] : i \in 1..Len(block)}

\* The steps of `block` entered when `failing` raises ("none": all of them).
RECURSIVE Entered(_, _)
Entered(block, failing) ==
    IF block = <<>> THEN <<>>
    ELSE IF Head(block) = failing THEN <<Head(block)>>
    ELSE <<Head(block)>> \o Entered(Tail(block), failing)

\* `step` of `block` ran to its end.
Completed(block, failing, step) ==
    /\ step # failing
    /\ step \in StepsOf(Entered(block, failing))

load_model_Unguarded(handle, loaded) ==
    [summarizer |-> handle + 1, model_loaded |-> TRUE]

\* PolicySummaryAgent.load_model, when pipeline(...) succeeds.
load_model(handle, loaded) ==
    IF ~loaded
    THEN [summarizer |-> handle + 1, model_loaded |-> TRUE]
    ELSE [summarizer |-> handle, model_loaded |-> loaded]

\* An exception reaches the end of the try block of summarize_policy_document.
Raise(e, at) ==
    /\ raised_at' = at
    /\ IF TopLevelCatches(e)
       THEN /\ pc' = "Failed"
            /\ result' = FailureResult(e)
       ELSE /\ pc' = "Escaped"
            /\ result' = result

\* The calls still in flight are no longer awaited.
Abandon(cs) ==
    [k \in 1..Len(cs) |->
        IF Finished(cs[k]) THEN cs[k] ELSE [cs[k] EXCEPT !.state = "abandoned"]]

\* agent.summarize_policy_document(file_path, file_type) is called.
StartRequest(d) ==
    /\ entry = Agent
    /\ pc \in {"Idle", "Done", "Failed"}
    /\ req < MaxRequests
    /\ req' = req + 1
    /\ doc' = d
    /\ pc' = "Extracting"
    /\ fast_pc' = "idle"
    /\ chunks' = <<>>
    /\ policy_sections' = <<>>
    /\ calls' = <<>>
    /\ completion' = <<>>
    /\ fast_result' = <<>>
    /\ combined_summary' = <<>>
    /\ refined_summary' = <<>>
    /\ summary_text' = <<>>
    /\ summarized_sections' = <<>>
    /\ result' = NoResult
    /\ steps' = <<"extract_text_async">>
    /\ raised_at' = ""
    /\ timed_out' = FALSE
    /\ UNCHANGED <<fnVars, coVars, ccVars, psVars, objVars, entry>>

ExtractionErrors ==
    { Exc("TimeoutError", "Text extraction timed out after 10 seconds"),
      Exc("Exception", "Text extraction failed: ...") }

\* extract_text_async raises.
ExtractionFails(e) ==
    /\ entry = Agent
    /\ pc = "Extracting"
    /\ Raise(e, "extract_text_async")
    /\ UNCHANGED <<fnVars, coVars, ccVars, psVars, objVars, entry, req, fast_pc, doc, chunks,
                   policy_sections, calls, completion, textVars, steps,
                   timed_out>>

\* _generate_fast_summary(chunks) up to its first suspension point.
StartFastSummary(cs, handle) ==
    /\ fast_pc' = IF cs = <<>> THEN "done"
                  ELSE IF Len(cs) = 1 THEN "single" ELSE "gather"
    /\ calls' = IF cs = <<>> THEN <<>>
                ELSE IF Len(cs) = 1
                     THEN <<SummarizeChunkCall("chunk", 1, cs[1], handle)>>
                     ELSE [i \in 1..Min(FanoutLimit, Len(cs)) |->
                              SummarizeChunkCall("chunk", i, cs[i], handle)]
    /\ fast_result' = IF cs = <<>> THEN NoContent ELSE fast_result

\* extract_text_async returns raw_text: the emptiness check, clean_text,
\* smart_chunking, load_model, extract_policy_sections, and the start of
\* wait_for(_generate_fast_summary(chunks), timeout=30.0).
ExtractionReturns ==
    /\ entry = Agent
    /\ pc = "Extracting"
    /\ IF IsNearEmpty(doc)
       THEN /\ pc' = "Failed"
            /\ result' = EmptyDocumentResult
            /\ UNCHANGED <<objVars, fast_pc, chunks, policy_sections, calls,
                           fast_result, steps, raised_at>>
       ELSE \E failing \in {"none"} \cup StepsOf(FirstBlock) :
            /\ failing = "load_model" => ~model_loaded
            /\ LET cs     == smart_chunking(clean_text(doc), doc.keyword_at)
                   loaded == IF Completed(FirstBlock, failing, "load_model")
                             THEN load_model(summarizer, model_loaded)
                             ELSE [summarizer |-> summarizer,
                                   model_loaded |-> model_loaded]
               IN  /\ chunks' = IF Completed(FirstBlock, failing, "smart_chunking")
                                THEN cs ELSE chunks
                   /\ summarizer' = loaded.summarizer
                   /\ model_loaded' = loaded.model_loaded
                   /\ policy_sections' =
                        IF Completed(FirstBlock, failing, "extract_policy_sections")
                        THEN extract_policy_sections(doc) ELSE policy_sections
                   /\ IF failing # "none"
                      THEN /\ steps' = steps \o Entered(FirstBlock, failing)
                           /\ Raise(StepError(failing), failing)
                           /\ UNCHANGED <<fast_pc, calls, fast_result>>
                      ELSE /\ steps' = steps \o FirstBlock
                                          \o <<"_generate_fast_summary">>
                           /\ pc' = "Summarizing"
                           /\ StartFastSummary(cs, loaded.summarizer)
                           /\ UNCHANGED <<result, raised_at>>
    /\ UNCHANGED <<fnVars, coVars, ccVars, psVars, entry, req, doc, completion, combined_summary,
                   refined_summary, summary_text, summarized_sections,
                   timed_out>>

Awaiting == pc \in {"Summarizing", "Refining", "SummarizingSections"}

callUnchanged ==
    <<fnVars, coVars, ccVars, psVars, objVars, entry, req, pc, fast_pc, doc, chunks, policy_sections,
      textVars, result, steps, raised_at, timed_out>>

\* The capability returns a summary of n words for call k.
CallReturns(k, n) ==
    /\ entry = Agent
    /\ Awaiting
    /\ k \in 1..Len(calls)
    /\ calls[k].state = "running"
    /\ calls' = [calls EXCEPT ![k].state = "returned",
                              ![k].output = SummaryOf(calls[k], n)]
    /\ completion' = Append(completion, k)
    /\ UNCHANGED callUnchanged

\* The capability raises in call k.
CallRaises(k) ==
    /\ entry = Agent
    /\ Awaiting
    /\ k \in 1..Len(calls)
    /\ calls[k].state = "running"
    /\ calls' = [calls EXCEPT ![k].state = "raised"]
    /\ completion' = Append(completion, k)
    /\ UNCHANGED callUnchanged

\* Call k will never return.
CallHangs(k) ==
    /\ entry = Agent
    /\ Awaiting
    /\ k \in 1..Len(calls)
    /\ calls[k].state = "running"
    /\ calls' = [calls EXCEPT ![k].state = "hung"]
    /\ UNCHANGED <<completion, callUnchanged>>

NeedsResummary_FromThreshold(combined) ==
    WordCount(combined) >= ResummarizeThreshold

\* `len(combined.split()) > 600`
NeedsResummary(combined) == WordCount(combined) > ResummarizeThreshold

\* _generate_fast_summary after `await asyncio.gather(...)`: the merge.
GatherDone ==
    /\ entry = Agent
    /\ pc = "Summarizing"
    /\ fast_pc = "gather"
    /\ \A k \in 1..Len(calls) : Finished(calls[k])
    /\ LET outcomes == [k \in 1..Len(calls) |-> SummarizeChunkOutcome(calls[k])]
           results  == GatherResults(outcomes, completion)
           combined == JoinAll(ValidResults(results))
       IN  IF NeedsResummary(combined)
           THEN /\ calls' = Append(calls,
                        SummarizeChunkCall("merge", 0, combined, summarizer))
                /\ fast_pc' = "merge"
                /\ UNCHANGED fast_result
           ELSE /\ fast_result' = combined
                /\ fast_pc' = "done"
                /\ UNCHANGED calls
    /\ UNCHANGED <<fnVars, coVars, ccVars, psVars, objVars, entry, req, pc, doc, chunks,
                   policy_sections, completion, combined_summary,
                   refined_summary, summary_text, summarized_sections, result,
                   steps, raised_at, timed_out>>

\* _generate_fast_summary after `await self._summarize_chunk(...)` of the
\* single chunk or of the concatenation.
AwaitedSummaryDone ==
    /\ entry = Agent
    /\ pc = "Summarizing"
    /\ fast_pc \in {"single", "merge"}
    /\ Finished(calls[Len(calls)])
    /\ LET outcome == SummarizeChunkOutcome(calls[Len(calls)])
       IN  IF outcome.ok
           THEN /\ fast_result' = outcome.value
                /\ fast_pc' = "done"
                /\ UNCHANGED <<pc, result, raised_at>>
           ELSE /\ Raise(outcome.exc, "_summarize_chunk")
                /\ UNCHANGED <<fast_result, fast_pc>>
    /\ UNCHANGED <<fnVars, coVars, ccVars, psVars, objVars, entry, req, doc, chunks, policy_sections,
                   calls, completion, combined_summary, refined_summary,
                   summary_text, summarized_sections, steps, timed_out>>

\* The 30 s of wait_for expire before _generate_fast_summary returned:
\* the inner task is cancelled and TimeoutError is raised at the await.
GlobalTimeout ==
    /\ entry = Agent
    /\ pc = "Summarizing"
    /\ fast_pc # "done"
    /\ timed_out' = TRUE
    /\ calls' = Abandon(calls)
    /\ Raise(WaitForTimeout, "wait_for")
    /\ UNCHANGED <<fnVars, coVars, ccVars, psVars, objVars, entry, req, fast_pc, doc, chunks,
                   policy_sections, completion, textVars, steps>>

\* wait_for returns combined_summary; _refine_summary_style issues its call.
WaitForReturns ==
    /\ entry = Agent
    /\ pc = "Summarizing"
    /\ fast_pc = "done"
    /\ combined_summary' = fast_result
    /\ steps' = Append(steps, "_refine_summary_style")
    /\ calls' = Append(calls, RefineCall(fast_result, summarizer))
    /\ pc' = "Refining"
    /\ UNCHANGED <<fnVars, coVars, ccVars, psVars, objVars, entry, req, fast_pc, doc, chunks,
                   policy_sections, completion, fast_result, refined_summary,
                   summary_text, summarized_sections, result, raised_at,
                   timed_out>>

\* The call the per-section loop issues for section i.
SectionCall(i) ==
    SummarizeChunkCall("section", i,
                       Join(SectionPrefix, policy_sections[i].content),
                       summarizer)

\* Lines 93-110: readability, sentiment and the returned dict.
Finish(base, text, sections) ==
    \E failing \in {"none"} \cup StepsOf(FinalBlock) :
        /\ steps' = base \o Entered(FinalBlock, failing)
        /\ IF failing = "none"
           THEN /\ pc' = "Done"
                /\ result' = SuccessResult(text, sections, doc)
                /\ UNCHANGED raised_at
           ELSE Raise(StepError(failing), failing)

\* _refine_summary_style returns: _adjust_word_count, the structuring, and
\* either the first per-section call or the end of the request.
RefineDone ==
    /\ entry = Agent
    /\ pc = "Refining"
    /\ Finished(calls[Len(calls)])
    /\ LET outcome == RefineOutcome(calls[Len(calls)])
           refined == outcome.value
       IN  IF ~outcome.ok
           THEN /\ Raise(outcome.exc, "_refine_summary_style")
                /\ UNCHANGED <<refined_summary, summary_text, calls, steps,
                               summarized_sections>>
           ELSE /\ refined_summary' = refined
                /\ \E failing \in {"none"} \cup StepsOf(SecondBlock),
                      end_word \in TerminatorChoices :
                    /\ WordCount(refined) <= TargetWords => end_word = -1
                    /\ summary_text' =
                         IF Completed(SecondBlock, failing, "_adjust_word_count")
                         THEN adjust_word_count(refined, TargetWords, end_word)
                         ELSE summary_text
                    /\ failing # "_adjust_word_count" \/ end_word = -1
                    /\ IF failing # "none"
                       THEN /\ steps' = steps \o Entered(SecondBlock, failing)
                            /\ Raise(StepError(failing), failing)
                            /\ UNCHANGED <<calls, summarized_sections>>
                       ELSE IF policy_sections # <<>>
                       THEN /\ steps' = steps \o SecondBlock
                                           \o <<"_summarize_chunk(section)">>
                            /\ calls' = Append(calls, SectionCall(1))
                            /\ pc' = "SummarizingSections"
                            /\ UNCHANGED <<result, raised_at,
                                           summarized_sections>>
                       ELSE /\ Finish(steps \o SecondBlock, summary_text', <<>>)
                            /\ UNCHANGED <<calls, summarized_sections>>
    /\ UNCHANGED <<fnVars, coVars, ccVars, psVars, objVars, entry, req, fast_pc, doc, chunks,
                   policy_sections, completion, fast_result, combined_summary,
                   timed_out>>

\* The value stored for a section: the helper's result, or on an exception
\* `content[:400] + "..."`.
SectionValue(outcome, content) ==
    IF outcome.ok THEN outcome.value ELSE SectionExcerpt(content)

\* The per-section call returns: store it, then the next section or the end.
SectionDone ==
    /\ entry = Agent
    /\ pc = "SummarizingSections"
    /\ Finished(calls[Len(calls)])
    /\ LET call     == calls[Len(calls)]
           i        == call.index
           outcome  == SummarizeChunkOutcome(call)
           sections == Append(summarized_sections,
                         [title   |-> policy_sections[i].title,
                          summary |-> SectionValue(outcome,
                                          policy_sections[i].content)])
       IN  /\ summarized_sections' = sections
           /\ IF i < Len(policy_sections)
              THEN /\ calls' = Append(calls, SectionCall(i + 1))
                   /\ steps' = Append(steps, "_summarize_chunk(section)")
                   /\ UNCHANGED <<pc, result, raised_at>>
              ELSE /\ Finish(steps, summary_text, sections)
                   /\ UNCHANGED calls
    /\ UNCHANGED <<fnVars, coVars, ccVars, psVars, objVars, entry, req, fast_pc, doc, chunks,
                   policy_sections, completion, fast_result, combined_summary,
                   refined_summary, summary_text, timed_out>>

NextAgent ==
    \/ \E d \in Docs : StartRequest(d)
    \/ \E e \in ExtractionErrors : ExtractionFails(e)
    \/ ExtractionReturns
    \/ \E k \in 1..Len(calls), n \in SummaryLengths : CallReturns(k, n)
    \/ \E k \in 1..Len(calls) : CallRaises(k)
    \/ \E k \in 1..Len(calls) : CallHangs(k)
    \/ GatherDone
    \/ AwaitedSummaryDone
    \/ GlobalTimeout
    \/ WaitForReturns
    \/ RefineDone
    \/ SectionDone

(***************************************************************************)
(* PolicySummarizer.summarize_policy_async                                 *)
(*                                                                         *)
(* summarize_chunk never suspends: it calls the capability directly, so a  *)
(* task, once the event loop starts it, runs to its end before the loop    *)
(* starts another, and the loop starts the tasks in the order gather       *)
(* created them.                                                           *)
(***************************************************************************)
Summarizer == "PolicySummarizer"

MaxSummarizerChunks == 3

ShortChunkChars == 50
FallbackChars == 200

\* Chunk i of a chunk list: its words and its length in characters.
SummarizerChunk(i, long) ==
    [text  |-> Words(Source("document", "", <<>>),
                     200 * (i - 1) + 1,
                     200 * (i - 1) + (IF long THEN 150 ELSE 6)),
     chars |-> IF long THEN 900 ELSE 40]

SummarizerInputs ==
    UNION { { [i \in 1..n |-> SummarizerChunk(i, i \in long)] :
                long \in SUBSET (1..n) } : n \in 0..MaxSummarizerChunks }

\* `chunk[:200] + "..."`: at most 200 characters, hence at most 100 words.
ChunkExcerpt(chunk) ==
    Words(Source("chunk[:200]", "", chunk.text), 1,
          Min(WordCount(chunk.text), FallbackChars \div 2)) \o <<EllipsisMark>>

\* What the capability may do in summarize_chunk.
CapabilityOutcomes == {"summary", "empty", "raise"}

\* PolicySummarizer.summarize_chunk for a chunk of at least 50 characters.
summarize_chunk(chunk, outcome) ==
    IF outcome = "summary"
    THEN Words(Source("summary", "", chunk.text), 1, ShortSummaryWords)
    ELSE ChunkExcerpt(chunk)

\* asyncio.run(summarizer.summarize_policy_async(chunks, max_length))
SummarizerStart(input) ==
    /\ entry = Summarizer
    /\ ps_pc = "idle"
    /\ ps_chunks' = input
    /\ ps_tasks' = [i \in 1..Len(input) |-> [state |-> "pending", value |-> <<>>]]
    /\ ps_pc' = "gathering"
    /\ UNCHANGED <<ps_completion, ps_result, fnVars, coVars, ccVars, objVars, reqVars>>

\* The event loop starts task i: the first one it has not started yet.
SummarizerTaskStarts(i) ==
    /\ entry = Summarizer
    /\ ps_pc = "gathering"
    /\ i \in 1..Len(ps_tasks)
    /\ ps_tasks[i].state = "pending"
    /\ \A j \in 1..Len(ps_tasks) :
          /\ ps_tasks[j].state # "running"
          /\ j < i => ps_tasks[j].state = "done"
    /\ ps_tasks' = [ps_tasks EXCEPT ![i].state = "running"]
    /\ UNCHANGED <<ps_pc, ps_chunks, ps_completion, ps_result, fnVars, coVars, ccVars,
                   objVars, reqVars>>

\* Task i runs summarize_chunk to its end.
SummarizerTaskEnds(i, outcome) ==
    /\ entry = Summarizer
    /\ ps_pc = "gathering"
    /\ i \in 1..Len(ps_tasks)
    /\ ps_tasks[i].state = "running"
    /\ ps_chunks[i].chars < ShortChunkChars => outcome = "summary"
    /\ ps_tasks' = [ps_tasks EXCEPT
            ![i] = [state |-> "done",
                    value |-> IF ps_chunks[i].chars < ShortChunkChars
                              THEN ps_chunks[i].text
                              ELSE summarize_chunk(ps_chunks[i], outcome)]]
    /\ ps_completion' = Append(ps_completion, i)
    /\ UNCHANGED <<ps_pc, ps_chunks, ps_result, fnVars, coVars, ccVars, objVars, reqVars>>

\* `return await asyncio.gather(*tasks)`
SummarizerGatherDone ==
    /\ entry = Summarizer
    /\ ps_pc = "gathering"
    /\ \A i \in 1..Len(ps_tasks) : ps_tasks[i].state = "done"
    /\ ps_result' = GatherResults([i \in 1..Len(ps_tasks) |-> ps_tasks[i].value],
                                  ps_completion)
    /\ ps_pc' = "done"
    /\ UNCHANGED <<ps_chunks, ps_tasks, ps_completion, fnVars, coVars, ccVars, objVars, reqVars>>

NextSummarizer ==
    \/ \E input \in SummarizerInputs : SummarizerStart(input)
    \/ \E i \in 1..Len(ps_tasks) : SummarizerTaskStarts(i)
    \/ \E i \in 1..Len(ps_tasks), o \in CapabilityOutcomes : SummarizerTaskEnds(i, o)
    \/ SummarizerGatherDone

SummarizerIdle ==
    /\ ps_pc = "idle"
    /\ ps_chunks = <<>>
    /\ ps_tasks = <<>>
    /\ ps_completion = <<>>
    /\ ps_result = <<>>

(***************************************************************************)
(* Pure text functions                                                     *)
(*                                                                         *)
(* Here a text is a Python str: a sequence of one-character strings.  A    *)
(* run with entry = Functions makes one call of one function on an input   *)
(* drawn from that function's input set.                                   *)
(***************************************************************************)
Functions == "Functions"

NoCall == [fn |-> "", input |-> <<>>, output |-> <<>>]

\* The sequences over S of length 0..n.
SeqsUpTo(S, n) == UNION {[1..k -> S] : k \in 0..n}

\* What \s matches.
Whitespace == {" ", "\t", "\n"}

\* str.split(): the maximal runs of non-whitespace characters, in order.
StrSplit(s) ==
    LET Index     == [i \in 1..Len(s) |-> i]
        Starts(i) == s[i] \notin Whitespace /\ (i = 1 \/ s[i - 1] \in Whitespace)
        Ends(i)   == s[i] \notin Whitespace /\ (i = Len(s) \/ s[i + 1] \in Whitespace)
        starts    == SelectSeq(Index, Starts)
        ends      == SelectSeq(Index, Ends)
    IN  [k \in 1..Len(starts) |-> SubSeq(s, starts[k], ends[k])]

\* sep.join(words)
RECURSIVE StrJoin(_, _)
StrJoin(sep, words) ==
    IF words = <<>> THEN <<>>
    ELSE IF Len(words) = 1 THEN words[1]
    ELSE words[1] \o sep \o StrJoin(sep, Tail(words))

\* s.rfind(c) for a character c: the 0-based index of its last occurrence,
\* -1 if there is none.
RECURSIVE StrRFind(_, _)
StrRFind(s, c) ==
    IF s = <<>> THEN -1
    ELSE IF s[Len(s)] = c THEN Len(s) - 1
    ELSE StrRFind(SubSeq(s, 1, Len(s) - 1), c)

\* s.strip()
RECURSIVE StrStrip(_)
StrStrip(s) ==
    IF s = <<>> THEN s
    ELSE IF s[1] \in Whitespace THEN StrStrip(Tail(s))
    ELSE IF s[Len(s)] \in Whitespace THEN StrStrip(SubSeq(s, 1, Len(s) - 1))
    ELSE s

\* s[:n] for n >= 0
StrPrefix(s, n) == SubSeq(s, 1, Min(n, Len(s)))

Ellipsis == <<".", ".", ".">>

\* PolicySummaryAgent._adjust_word_count on a str.
adjust_word_count_str(summary, target_words) ==
    IF summary = <<>> THEN <<>>
    ELSE LET words == StrSplit(summary)
         IN  IF Len(words) <= target_words THEN summary
             ELSE LET truncated == StrJoin(<<" ">>, SubSeq(words, 1, target_words))
                      end_idx   == Max(Max(StrRFind(truncated, "."),
                                           StrRFind(truncated, "!")),
                                       StrRFind(truncated, "?"))
                  IN  IF end_idx # -1 THEN StrPrefix(truncated, end_idx + 1)
                      ELSE truncated \o Ellipsis

MaxAdjustWords == 4
MaxTargetWords == 2

\* The words the summaries handed to _adjust_word_count are made of: plain,
\* ending a sentence, and holding a '.' inside (a decimal, an abbreviation).
AdjustWords ==
    { <<"a">>, <<"a", ".">>, <<"a", "!">>, <<"a", "?">>, <<"1", ".", "5">> }

AdjustInputs ==
    { [summary      |-> StrJoin(sep, ws), target_words |-> t] :
        ws  \in SeqsUpTo(AdjustWords, MaxAdjustWords),
        sep \in {<<" ">>, <<" ", " ">>},
        t   \in 1..MaxTargetWords }

\* self._adjust_word_count(refined_summary, config.TARGET_WORDS)
AdjustWordCount ==
    /\ entry = Functions
    /\ fcall.fn = ""
    /\ \E in \in AdjustInputs :
          fcall' = [fn     |-> "_adjust_word_count",
                    input  |-> in,
                    output |-> adjust_word_count_str(in.summary,
                                                     in.target_words)]
    /\ UNCHANGED <<ccVars, coVars, objVars, reqVars, psVars>>

Digits == {"0", "1", "2", "3", "4", "5", "6", "7", "8", "9"}
UpperLetters ==
    {"A", "B", "C", "D", "E", "F", "G", "H", "I", "J", "K", "L", "M",
     "N", "O", "P", "Q", "R", "S", "T", "U", "V", "W", "X", "Y", "Z"}
LowerLetters ==
    {"a", "b", "c", "d", "e", "f", "g", "h", "i", "j", "k", "l", "m",
     "n", "o", "p", "q", "r", "s", "t", "u", "v", "w", "x", "y", "z"}
\* The one character str.lower() turns into two: the capital I with a dot
\* above (U+0130) becomes "i" followed by the combining dot above (U+0307).
\* Both are written by their code points.
DottedCapitalI == "U+0130"
CombiningDot == "U+0307"

\* What \w matches: the ASCII word characters, and of the other letters the
\* one above.
WordChars ==
    UpperLetters \cup LowerLetters \cup Digits \cup {"_", DottedCapitalI}

\* re.sub(r'\s+', ' ', text)
CollapseWhitespace(s) ==
    LET Index    == [i \in 1..Len(s) |-> i]
        \* a whitespace character after another belongs to the same run
        Kept(i)  == ~(s[i] \in Whitespace /\ i > 1 /\ s[i - 1] \in Whitespace)
        kept     == SelectSeq(Index, Kept)
    IN  [k \in 1..Len(kept) |->
            IF s[kept[k]] \in Whitespace THEN " " ELSE s[kept[k]]]

\* re.sub(r'[^...]', repl, text): every character outside `kept` becomes repl.
RECURSIVE SubOutside(_, _, _)
SubOutside(s, kept, repl) ==
    IF s = <<>> THEN <<>>
    ELSE (IF s[1] \in kept THEN <<s[1]>> ELSE repl)
            \o SubOutside(Tail(s), kept, repl)

\* The class [\w\s.,!?;:()-] of clean_text.
CleanTextKept ==
    WordChars \cup Whitespace \cup {".", ",", "!", "?", ";", ":", "(", ")", "-"}
\* The class [\w\s.,;:!?()\-$%] of normalize_text.
NormalizeTextKept == CleanTextKept \cup {"$", "%"}

\* FileProcessor.clean_text on a str.
clean_text_str(text) ==
    IF text = <<>> THEN <<>>
    ELSE StrStrip(SubOutside(CollapseWhitespace(text), CleanTextKept, <<>>))

\* DocumentProcessor.normalize_text
normalize_text(text) ==
    IF text = <<>> THEN <<>>
    ELSE StrStrip(SubOutside(CollapseWhitespace(text), NormalizeTextKept, <<" ">>))

MaxTextLen == 5

\* The characters of the texts handed to the normalizers: a letter, two
\* kinds of whitespace, a kept punctuation mark, the currency sign and a
\* symbol neither normalizer keeps.
TextChars == {"a", " ", "\n", ".", "$", "@"}

TextInputs == SeqsUpTo(TextChars, MaxTextLen)

\* self.file_processor.clean_text(raw_text)
CleanText ==
    /\ entry = Functions
    /\ fcall.fn = ""
    /\ \E text \in TextInputs :
          fcall' = [fn |-> "clean_text", input |-> text,
                    output |-> clean_text_str(text)]
    /\ UNCHANGED <<ccVars, coVars, objVars, reqVars, psVars>>

\* processor.normalize_text(raw_text)
NormalizeText ==
    /\ entry = Functions
    /\ fcall.fn = ""
    /\ \E text \in TextInputs :
          fcall' = [fn |-> "normalize_text", input |-> text,
                    output |-> normalize_text(text)]
    /\ UNCHANGED <<ccVars, coVars, objVars, reqVars, psVars>>

\* str.lower(), character by character (ASCII).
LowerChar(c) ==
    CASE c = "A" -> "a"
       [] c = "B" -> "b"
       [] c = "C" -> "c"
       [] c = "D" -> "d"
       [] c = "E" -> "e"
       [] c = "F" -> "f"
       [] c = "G" -> "g"
       [] c = "H" -> "h"
       [] c = "I" -> "i"
       [] c = "J" -> "j"
       [] c = "K" -> "k"
       [] c = "L" -> "l"
       [] c = "M" -> "m"
       [] c = "N" -> "n"
       [] c = "O" -> "o"
       [] c = "P" -> "p"
       [] c = "Q" -> "q"
       [] c = "R" -> "r"
       [] c = "S" -> "s"
       [] c = "T" -> "t"
       [] c = "U" -> "u"
       [] c = "V" -> "v"
       [] c = "W" -> "w"
       [] c = "X" -> "x"
       [] c = "Y" -> "y"
       [] c = "Z" -> "z"
       [] OTHER -> c

\* s.lower()
StrLower(s) ==
    LET Dotted(i)  == s[i] = DottedCapitalI
        \* the number of characters s[1..i-1] becomes
        Before(i)  == (i - 1) + Cardinality({j \in 1..(i - 1) : Dotted(j)})
        Lowered(i) == IF Dotted(i) THEN <<"i", CombiningDot>>
                      ELSE <<LowerChar(s[i])>>
    IN  IF \A i \in 1..Len(s) : ~Dotted(i)
        THEN [i \in 1..Len(s) |-> LowerChar(s[i])]
        ELSE [k \in 1..Before(Len(s) + 1) |->
                LET i == CHOOSE j \in 1..Len(s) :
                            Before(j) < k /\ k <= Before(j + 1)
                IN  Lowered(i)[k - Before(i)]]

\* s.find(needle): the 0-based index of the first occurrence, -1 if none.
StrFind(s, needle) ==
    LET hits == {i \in 1..(Len(s) - Len(needle) + 1) :
                    SubSeq(s, i, i + Len(needle) - 1) = needle}
    IN  IF hits = {} THEN -1
        ELSE (CHOOSE i \in hits : \A j \in hits : i <= j) - 1

\* section_keywords of smart_chunking
ChunkingKeywords ==
    << <<"s", "u", "m", "m", "a", "r", "y">>,
       <<"e", "x", "e", "c", "u", "t", "i", "v", "e">>,
       <<"i", "n", "t", "r", "o", "d", "u", "c", "t", "i", "o", "n">>,
       <<"a", "b", "s", "t", "r", "a", "c", "t">>,
       <<"p", "o", "l", "i", "c", "y">>,
       <<"p", "u", "r", "p", "o", "s", "e">>,
       <<"o", "b", "j", "e", "c", "t", "i", "v", "e">> >>

\* The for loop of smart_chunking, from word offset i on.
RECURSIVE ChunkLoopStr(_, _, _, _, _)
ChunkLoopStr(words, i, chunk_size, overlap, acc) ==
    IF i >= Len(words) THEN acc
    ELSE LET chunk == SubSeq(words, i + 1, Min(i + chunk_size, Len(words)))
             acc2  == Append(acc, StrJoin(<<" ">>, chunk))
         IN  IF Len(acc2) >= MaxChunks THEN acc2
             ELSE ChunkLoopStr(words, i + (chunk_size - overlap), chunk_size,
                               overlap, acc2)

smart_chunking_Uncapped(text, chunk_size, overlap) ==
    LET words == StrSplit(text)
    IN  [k \in 1..((Len(words) + chunk_size - overlap - 1)
                        \div (chunk_size - overlap)) |->
            StrJoin(<<" ">>,
                    SubSeq(words, (k - 1) * (chunk_size - overlap) + 1,
                           Min((k - 1) * (chunk_size - overlap) + chunk_size,
                               Len(words))))]

\* FileProcessor.smart_chunking on a str.
smart_chunking_str(text, chunk_size, overlap) ==
    IF text = <<>> THEN <<>>
    ELSE LET words == StrSplit(text)
         IN  IF Len(words) <= chunk_size THEN <<StrJoin(<<" ">>, words)>>
             ELSE LET lower_text == StrLower(text)
                      important_sections ==
                          {StrFind(lower_text, ChunkingKeywords[k]) :
                              k \in 1..Len(ChunkingKeywords)} \ {-1}
                      start_pos ==
                          CHOOSE p \in important_sections :
                              \A q \in important_sections : p <= q
                      from_keyword ==
                          IF important_sections # {}
                          THEN StrSplit(SubSeq(text, start_pos + 1, Len(text)))
                          ELSE words
                  IN  ChunkLoopStr(from_keyword, 0, chunk_size, overlap, <<>>)

MaxChunkedWords == 5

\* The words of the texts handed to the chunker: two plain words, a symbol
\* clean_text removes, a relevance keyword in mixed case, and a letter whose
\* lower case is two characters long.
ChunkedWords ==
    { <<"a">>, <<"b">>, <<"@">>, <<"P", "o", "l", "i", "c", "y">>,
      <<DottedCapitalI>> }

\* chunk_size and overlap: the defaults, and windows small enough for the
\* texts above to span several of them.
ChunkingParameters ==
    { [chunk_size |-> ChunkSize, overlap |-> ChunkOverlap] }
        \cup { p \in [chunk_size : 1..2, overlap : 0..1] :
                   p.overlap < p.chunk_size }

ChunkingInputs ==
    { [raw_text |-> StrJoin(<<" ">>, ws), chunk_size |-> p.chunk_size,
       overlap  |-> p.overlap] :
        ws \in SeqsUpTo(ChunkedWords, MaxChunkedWords), p \in ChunkingParameters }

\* clean_text = self.file_processor.clean_text(raw_text)
\* chunks = self.file_processor.smart_chunking(clean_text)
SmartChunking ==
    /\ entry = Functions
    /\ fcall.fn = ""
    /\ \E in \in ChunkingInputs :
          LET cleaned == clean_text_str(in.raw_text)
          IN  fcall' = [fn     |-> "smart_chunking",
                        input  |-> in,
                        output |-> [clean_text |-> cleaned,
                                    chunks     |-> smart_chunking_str(
                                        cleaned, in.chunk_size, in.overlap)]]
    /\ UNCHANGED <<ccVars, coVars, objVars, reqVars, psVars>>

\* One call of a pure text function.
(***************************************************************************)
(* FileProcessor.extract_policy_sections on texts (file_processor.py)      *)
(***************************************************************************)
\* Config.SECTION_TITLES.
SECTION_TITLES ==
    <<"LOSS OF OR DAMAGE TO YOUR VEHICLE", "YOUR LIABILITY",
      "OPTIONAL COVER LIMITS", "POLICY COVERAGE", "EXCLUSIONS",
      "CLAIMS PROCEDURE", "GENERAL CONDITIONS", "ENDORSEMENTS",
      "RENEWAL TERMS">>

\* The characters of each title.
Spell ==
    [t \in StepsOf(SECTION_TITLES) |->
        CASE t = "LOSS OF OR DAMAGE TO YOUR VEHICLE" ->
         <<"L", "O", "S", "S", " ", "O", "F", " ", "O", "R", " ", "D",
           "A", "M", "A", "G", "E", " ", "T", "O", " ", "Y", "O", "U",
           "R", " ", "V", "E", "H", "I", "C", "L", "E">>
          [] t = "YOUR LIABILITY" ->
         <<"Y", "O", "U", "R", " ", "L", "I", "A", "B", "I", "L", "I",
           "T", "Y">>
          [] t = "OPTIONAL COVER LIMITS" ->
         <<"O", "P", "T", "I", "O", "N", "A", "L", " ", "C", "O", "V",
           "E", "R", " ", "L", "I", "M", "I", "T", "S">>
          [] t = "POLICY COVERAGE" ->
         <<"P", "O", "L", "I", "C", "Y", " ", "C", "O", "V", "E", "R",
           "A", "G", "E">>
          [] t = "EXCLUSIONS" ->
         <<"E", "X", "C", "L", "U", "S", "I", "O", "N", "S">>
          [] t = "CLAIMS PROCEDURE" ->
         <<"C", "L", "A", "I", "M", "S", " ", "P", "R", "O", "C", "E",
           "D", "U", "R", "E">>
          [] t = "GENERAL CONDITIONS" ->
         <<"G", "E", "N", "E", "R", "A", "L", " ", "C", "O", "N", "D",
           "I", "T", "I", "O", "N", "S">>
          [] t = "ENDORSEMENTS" ->
         <<"E", "N", "D", "O", "R", "S", "E", "M", "E", "N", "T", "S">>
          [] t = "RENEWAL TERMS" ->
         <<"R", "E", "N", "E", "W", "A", "L", " ", "T", "E", "R", "M",
           "S">>]

MinSectionTextChars == 100
MaxSectionChars == 3000
MinSectionWords == 5

Delimiter == <<"-", "-", "-">>

\* Does w occur in s at index p, letter case ignored (re.IGNORECASE)?
HasAt(s, p, w) ==
    /\ p + Len(w) - 1 <= Len(s)
    /\ \A k \in 1..Len(w) : LowerChar(s[p + k - 1]) = LowerChar(w[k])

RECURSIVE SkipSpaces(_, _)
\* \s* from index p: the index after the whitespace.
SkipSpaces(s, p) ==
    IF p <= Len(s) /\ s[p] \in Whitespace THEN SkipSpaces(s, p + 1) ELSE p

\* The pattern of extract_policy_sections tried at index p:
\* (?:---\s*)?(T1|...|T7)(?:\s*---)? with the seven titles written in the
\* expression.  No title starts with a space or a dash, so the title starts
\* after the optional delimiter or the pattern does not match at p.  The
\* result is [title, start, end) of the match, end = 0 for no match; title
\* is group(1).upper(), the title as the expression spells it.
SectionMatchAt(s, p) ==
    LET q        == IF HasAt(s, p, Delimiter) THEN SkipSpaces(s, p + 3) ELSE p
        found    == { i \in 1..Len(SectionTitlePattern) :
                        HasAt(s, q, Spell[SectionTitlePattern[i]]) }
        first    == CHOOSE i \in found : \A j \in found : i <= j
        title    == SectionTitlePattern[first]
        after    == q + Len(Spell[title])
        closing  == SkipSpaces(s, after)
    IN  IF found = {} THEN [title |-> "", start |-> p, end |-> 0]
        ELSE [title |-> title, start |-> p,
              end   |-> IF HasAt(s, closing, Delimiter)
                        THEN closing + 3 ELSE after]

RECURSIVE finditer(_, _)
\* list(pattern.finditer(cleaned_text)) from index p on.
finditer(s, p) ==
    LET starts == { q \in p..Len(s) : SectionMatchAt(s, q).end # 0 }
        m      == SectionMatchAt(s, CHOOSE q \in starts : \A r \in starts : q <= r)
    IN  IF starts = {} THEN <<>> ELSE <<m>> \o finditer(s, m.end)

\* sections[title] = content on a dict kept as the sequence of its items in
\* iteration order: a new key is appended, an existing key keeps its place
\* and takes the new value.  `at` remembers the heading occurrence the
\* content follows.
SetItem(sections, title, content, at) ==
    LET item == [title |-> title, content |-> content, at |-> at]
    IN  IF \E k \in 1..Len(sections) : sections[k].title = title
        THEN [k \in 1..Len(sections) |->
                 IF sections[k].title = title THEN item ELSE sections[k]]
        ELSE Append(sections, item)

RECURSIVE SectionsLoop(_, _, _, _)
\* The loop over the matches, from match i on.
SectionsLoop(cleaned_text, matches, i, sections) ==
    IF i > Len(matches) THEN sections
    ELSE LET end     == IF i + 1 <= Len(matches) THEN matches[i + 1].start - 1
                        ELSE Len(cleaned_text)
             slice   == StrStrip(SubSeq(cleaned_text, matches[i].end, end))
             content == IF Len(slice) > MaxSectionChars
                        THEN StrPrefix(slice, MaxSectionChars) \o Ellipsis
                        ELSE slice
         IN  SectionsLoop(cleaned_text, matches, i + 1,
                 IF Len(StrSplit(content)) > MinSectionWords
                 THEN SetItem(sections, matches[i].title, content,
                              matches[i].start)
                 ELSE sections)

\* FileProcessor.extract_policy_sections(text); the texts drawn hold no
\* em or en dash, which line 151 would turn into "-".
extract_policy_sections_str(text) ==
    IF text = <<>> \/ Len(StrStrip(text)) < MinSectionTextChars THEN <<>>
    ELSE LET cleaned_text == CollapseWhitespace(text)
         IN  SectionsLoop(cleaned_text, finditer(cleaned_text, 1), 1, <<>>)

\* The texts drawn: headings, each followed by its content.  A heading is
\* a configured title in upper or lower case, bare or between --- markers;
\* a content is a number of equal words.
MaxHeadings == 3

LongWord == <<"i", "n", "d", "e", "m", "n", "i", "f", "i", "c", "a", "t",
              "i", "o", "n">>
Word == <<"c", "o", "v", "e", "r">>

\* One heading of any configured title in every form, followed by five or
\* six long words or by six one-letter words.
SingleHeadings ==
    [delimited : BOOLEAN, title : StepsOf(SECTION_TITLES), lower : BOOLEAN,
     content : { [words |-> MinSectionWords, word |-> LongWord],
                 [words |-> MinSectionWords + 1, word |-> LongWord],
                 [words |-> MinSectionWords + 1, word |-> <<"a">>] }]

\* The headings of the texts with several headings: three titles between
\* markers, followed by five or six words.
RepeatedHeadings ==
    [delimited : {TRUE}, title : {"EXCLUSIONS", "YOUR LIABILITY", "ENDORSEMENTS"},
     lower : {FALSE},
     content : { [words |-> MinSectionWords, word |-> Word],
                 [words |-> MinSectionWords + 1, word |-> Word] }]

HeadingText(h) ==
    LET title == IF h.lower THEN StrLower(Spell[h.title]) ELSE Spell[h.title]
    IN  (IF h.delimited
         THEN Delimiter \o <<" ">> \o title \o <<" ">> \o Delimiter
         ELSE title)
        \o <<"\n">> \o StrJoin(<<" ">>, [k \in 1..h.content.words |-> h.content.word])

SectionDocuments ==
    { <<h>> : h \in SingleHeadings }
        \cup { hs \in SeqsUpTo(RepeatedHeadings, MaxHeadings) : Len(hs) >= 2 }

DocumentText(headings) ==
    StrJoin(<<"\n">>, [k \in 1..Len(headings) |-> HeadingText(headings[k])])

ExtractPolicySections ==
    /\ entry = Functions
    /\ fcall.fn = ""
    /\ \E headings \in SectionDocuments :
          LET text == DocumentText(headings)
          IN  fcall' = [fn |-> "extract_policy_sections",
                        input |-> [headings |-> headings, text |-> text],
                        output |-> extract_policy_sections_str(text)]
    /\ UNCHANGED <<ccVars, coVars, objVars, reqVars, psVars>>

(***************************************************************************)
(* Regular expressions (Python re) as used by utils/entity_extractor.py    *)
(*                                                                         *)
(* An expression is a tree; a match attempt is a walk over it that yields  *)
(* the states [p, g] it can end in, in the order in which re's             *)
(* backtracking tries them: p is the index of the next character, g the    *)
(* index where the capturing group opened (0: not opened).  The first      *)
(* state is the match re reports.                                          *)
(***************************************************************************)
OneOf(set) == [k |-> "set", set |-> set]
Cat(rs) == [k |-> "cat", rs |-> rs]
Alt(rs) == [k |-> "alt", rs |-> rs]
Lit(w) == Cat([i \in 1..Len(w) |-> OneOf({w[i]})])
\* r{lo,hi} and r{lo,}, greedy.
Rep(r, lo, hi) == [k |-> "rep", r |-> r, lo |-> lo, hi |-> hi, inf |-> FALSE]
Many(r, lo) == [k |-> "rep", r |-> r, lo |-> lo, hi |-> 0, inf |-> TRUE]
Opt(r) == Rep(r, 0, 1)
WordBoundary == [k |-> "b"]
AtEnd == [k |-> "end"]
OpenGroup == [k |-> "group"]

RECURSIVE Matches(_, _, _)
RECURSIVE MatchesFromAll(_, _, _)
\* The end states of r started in each of the states, in order.
MatchesFromAll(r, s, states) ==
    IF states = <<>> THEN <<>>
    ELSE Matches(r, s, Head(states)) \o MatchesFromAll(r, s, Tail(states))

RECURSIVE MatchesCat(_, _, _, _)
MatchesCat(rs, i, s, states) ==
    IF i > Len(rs) THEN states
    ELSE MatchesCat(rs, i + 1, s, MatchesFromAll(rs[i], s, states))

RECURSIVE MatchesAlt(_, _, _, _)
MatchesAlt(rs, i, s, st) ==
    IF i > Len(rs) THEN <<>>
    ELSE Matches(rs[i], s, st) \o MatchesAlt(rs, i + 1, s, st)

Matches(r, s, st) ==
    CASE r.k = "set" ->
            IF st.p <= Len(s) /\ s[st.p] \in r.set
            THEN <<[st EXCEPT !.p = @ + 1]>> ELSE <<>>
      [] r.k = "cat" -> MatchesCat(r.rs, 1, s, <<st>>)
      [] r.k = "alt" -> MatchesAlt(r.rs, 1, s, st)
      [] r.k = "rep" ->
            LET once == SelectSeq(Matches(r.r, s, st), LAMBDA t : t.p > st.p)
                rest == [r EXCEPT !.lo = Max(0, @ - 1), !.hi = Max(0, @ - 1)]
            IN  (IF r.inf \/ r.hi > 0
                 THEN MatchesFromAll(rest, s, once) ELSE <<>>)
                \o (IF r.lo = 0 THEN <<st>> ELSE <<>>)
      [] r.k = "b" ->
            IF (st.p > 1 /\ s[st.p - 1] \in WordChars)
                 # (st.p <= Len(s) /\ s[st.p] \in WordChars)
            THEN <<st>> ELSE <<>>
      [] r.k = "end" ->
            IF st.p = Len(s) + 1 \/ (st.p = Len(s) /\ s[st.p] = "\n")
            THEN <<st>> ELSE <<>>
      [] r.k = "group" -> <<[st EXCEPT !.g = st.p]>>

\* re.IGNORECASE: the expression for a lower-cased text.
RECURSIVE IgnoreCase(_)
IgnoreCase(r) ==
    CASE r.k = "set" -> OneOf({LowerChar(c) : c \in r.set})
      [] r.k \in {"cat", "alt"} ->
            [r EXCEPT !.rs = [i \in 1..Len(r.rs) |-> IgnoreCase(r.rs[i])]]
      [] r.k = "rep" -> [r EXCEPT !.r = IgnoreCase(r.r)]
      [] OTHER -> r

\* re.match(r, s): does r match at the start of s?
ReMatch(r, s) == Matches(r, s, [p |-> 1, g |-> 0]) # <<>>

\* The matches of r in s from index p on, leftmost first, not overlapping:
\* [at, to) of the match and of its group (of the match when r has none).
RECURSIVE Finditer(_, _, _)
Finditer(r, s, p) ==
    LET Match(at, end) ==
            <<[at |-> IF end.g = 0 THEN at ELSE end.g, to |-> end.p]>>
                \o Finditer(r, s, IF end.p > at THEN end.p ELSE at + 1)
        MatchAt(at) == Match(at, Head(Matches(r, s, [p |-> at, g |-> 0])))
        Leftmost(starts) ==
            IF starts = {} THEN <<>>
            ELSE MatchAt(CHOOSE q \in starts : \A q2 \in starts : q <= q2)
    IN  Leftmost({ q \in p..Len(s) : Matches(r, s, [p |-> q, g |-> 0]) # <<>> })

\* re.findall(r, text) and re.findall(r, text, re.IGNORECASE): the strings
\* of the group (of the match when r has no group), with their places.
FindallIn(r, s, text) ==
    LET Strings(found) ==
            [i \in 1..Len(found) |->
                [str |-> SubSeq(text, found[i].at, found[i].to - 1),
                 at  |-> found[i].at]]
    IN  Strings(Finditer(r, s, 1))

Findall(r, text) == FindallIn(r, text, text)
FindallIgnoreCase(r, text) == FindallIn(IgnoreCase(r), StrLower(text), text)

(***************************************************************************)
(* EntityExtractor (utils/entity_extractor.py)                             *)
(***************************************************************************)
Digit == OneOf(Digits)
\* [:\s\-]+ and [A-Z0-9\-]{6,20}
Separators == Many(OneOf({":", "-"} \cup Whitespace), 1)
NumberGroup == Cat(<<OpenGroup, Rep(OneOf(UpperLetters \cup Digits \cup {"-"}), 6, 20)>>)

\* self.policy_patterns
policy_patterns ==
    <<Cat(<<WordBoundary,
            Alt(<<Lit(<<"I", "N", "S">>), Lit(<<"P", "O", "L">>), Lit(<<"P", "L", "C">>), Lit(<<"C", "L", "M">>), Lit(<<"C", "T", "R">>)>>),
            Opt(OneOf({"-", "_"})), Rep(Digit, 3, 10), WordBoundary>>),
      Cat(<<WordBoundary, Rep(Digit, 3, 3), OneOf({"-", "_"}), Rep(Digit, 3, 3),
            Opt(OneOf({"-", "_"})), Rep(Digit, 3, 4), WordBoundary>>),
      Cat(<<WordBoundary, Rep(OneOf(UpperLetters), 2, 4), Rep(Digit, 6, 10),
            WordBoundary>>),
      Cat(<<WordBoundary, Lit(<<"P", "o", "l", "i", "c", "y">>), Many(OneOf(Whitespace), 0),
            Alt(<<Lit(<<"N", "o">>), Lit(<<"N", "u", "m", "b", "e", "r">>), Lit(<<"#">>), Lit(<<"I", "D">>)>>),
            Separators, NumberGroup>>),
      Cat(<<WordBoundary, Lit(<<"P", "O", "L">>), Separators, NumberGroup>>),
      Cat(<<WordBoundary, Lit(<<"I", "D">>), Separators, NumberGroup>>)>>

\* [A-Z][a-z]+(?:\s+[A-Z][a-z\.]+){1,3}
PersonName ==
    Cat(<<OpenGroup, OneOf(UpperLetters), Many(OneOf(LowerLetters), 1),
          Rep(Cat(<<Many(OneOf(Whitespace), 1), OneOf(UpperLetters),
                    Many(OneOf(LowerLetters \cup {"."}), 1)>>), 1, 3)>>)

\* self.name_contexts
name_contexts ==
    <<Cat(<<Alt(<<Lit(<<"I", "n", "s", "u", "r", "e", "d">>), Lit(<<"P", "o", "l", "i", "c", "y", "h", "o", "l", "d", "e", "r">>),
                  Cat(<<Lit(<<"N", "a", "m", "e", "d">>), Many(OneOf(Whitespace), 1), Lit(<<"I", "n", "s", "u", "r", "e", "d">>)>>)>>),
            Many(OneOf(Whitespace \cup {":"}), 1), PersonName>>),
      Cat(<<Lit(<<"N", "a", "m", "e">>), Many(OneOf(Whitespace \cup {":"}), 1), PersonName>>),
      Cat(<<Alt(<<Lit(<<"I", "n", "s", "u", "r", "e", "d">>), Lit(<<"P", "o", "l", "i", "c", "y", "h", "o", "l", "d", "e", "r">>)>>),
            Many(OneOf(Whitespace \cup {":"}), 1),
            OpenGroup, OneOf(UpperLetters),
            Many(OneOf(WordChars \cup Whitespace), 1),
            Alt(<<Lit(<<"I", "n", "c">>), Lit(<<"L", "L", "C">>), Lit(<<"L", "t", "d">>), Lit(<<"C", "o", "r", "p">>), Lit(<<"C", "o", "m", "p", "a", "n", "y">>)>>)>>)>>

\* self.currency_patterns: \$?\s*(\d{1,3}(?:,\d{3})*(?:\.\d{2})?)
currency_patterns ==
    <<Cat(<<Opt(OneOf({"$"})), Many(OneOf(Whitespace), 0), OpenGroup,
            Rep(Digit, 1, 3), Many(Cat(<<OneOf({","}), Rep(Digit, 3, 3)>>), 0),
            Opt(Cat(<<OneOf({"."}), Rep(Digit, 2, 2)>>))>>)>>

\* date_patterns of _extract_dates
date_patterns ==
    <<Cat(<<WordBoundary,
            Alt(<<Lit(<<"J", "a", "n">>),
                  Lit(<<"F", "e", "b">>),
                  Lit(<<"M", "a", "r">>),
                  Lit(<<"A", "p", "r">>),
                  Lit(<<"M", "a", "y">>),
                  Lit(<<"J", "u", "n">>),
                  Lit(<<"J", "u", "l">>),
                  Lit(<<"A", "u", "g">>),
                  Lit(<<"S", "e", "p">>),
                  Lit(<<"O", "c", "t">>),
                  Lit(<<"N", "o", "v">>),
                  Lit(<<"D", "e", "c">>)>>),
            Many(OneOf(LowerLetters), 0), OneOf({" "}), Rep(Digit, 1, 2),
            Opt(OneOf({","})), OneOf({" "}), Rep(Digit, 4, 4), WordBoundary>>),
      Cat(<<WordBoundary, Rep(Digit, 1, 2), OneOf({"/", "-"}), Rep(Digit, 1, 2),
            OneOf({"/", "-"}), Rep(Digit, 2, 4), WordBoundary>>),
      Cat(<<WordBoundary, Rep(Digit, 4, 4), OneOf({"-", "/"}), Rep(Digit, 1, 2),
            OneOf({"-", "/"}), Rep(Digit, 1, 2), WordBoundary>>)>>

\* \d{1,2}[/\-]\d{1,2}[/\-]\d{2,4}, as _validate_policy_number and
\* _validate_name try it at the start of a text.
DateLike ==
    Cat(<<Rep(Digit, 1, 2), OneOf({"/", "-"}), Rep(Digit, 1, 2),
          OneOf({"/", "-"}), Rep(Digit, 2, 4)>>)

\* ^\$?\d+\.?\d{0,2}$
AmountLike ==
    Cat(<<Opt(OneOf({"$"})), Many(Digit, 1), Opt(OneOf({"."})),
          Rep(Digit, 0, 2), AtEnd>>)

\* ^\d+$
AllDigits == Cat(<<Many(Digit, 1), AtEnd>>)

NoValue == <<>>
EmptyDict == [key \in {} |-> NoValue]

UpperChar(c) ==
    IF c \in LowerLetters THEN CHOOSE u \in UpperLetters : LowerChar(u) = c ELSE c

StrUpper(s) == [i \in 1..Len(s) |-> UpperChar(s[i])]

\* s[a:b]
StrSlice(s, a, b) == SubSeq(s, a + 1, b)

\* any(keyword in context for keyword in keywords)
AnyIn(keywords, context) ==
    \E i \in 1..Len(keywords) : Contains(context, keywords[i])

\* EntityExtractor._get_context
get_context(text, position, length, window) ==
    StrLower(StrSlice(text, Max(0, position - window),
                      Min(Len(text), position + length + window)))

\* EntityExtractor._validate_policy_number
validate_policy_number(raw) ==
    LET text == StrStrip(raw)
    IN  /\ ~(Len(text) < 4 \/ Len(text) > 25)
        /\ \E i \in 1..Len(text) :
              text[i] \in UpperLetters \cup LowerLetters \cup Digits
        /\ StrLower(text) \notin
                {<<"i", "n", "s", "u", "r", "i", "n", "g">>,
                  <<"i", "n", "s", "u", "r", "a", "n", "c", "e">>,
                  <<"p", "o", "l", "i", "c", "y">>,
                  <<"c", "o", "v", "e", "r", "a", "g", "e">>,
                  <<"l", "i", "a", "b", "i", "l", "i", "t", "y">>,
                  <<"p", "r", "e", "m", "i", "u", "m">>,
                  <<"e", "f", "f", "e", "c", "t", "i", "v", "e">>,
                  <<"d", "a", "t", "e">>}
        /\ ~ReMatch(DateLike, text)
        /\ ~ReMatch(AmountLike, text)

\* The candidates of _extract_policy_number: the valid matches of the
\* patterns, pattern after pattern.
RECURSIVE PolicyCandidates(_, _)
PolicyCandidates(text, i) ==
    IF i > Len(policy_patterns) THEN <<>>
    ELSE LET Valid(matches) ==
                 SelectSeq(matches, LAMBDA m : validate_policy_number(m.str))
             Appended(valid) ==
                 [k \in 1..Len(valid) |-> StrUpper(StrStrip(valid[k].str))]
         IN  Appended(Valid(FindallIgnoreCase(policy_patterns[i], text)))
                \o PolicyCandidates(text, i + 1)

\* EntityExtractor._extract_policy_number
extract_policy_number(text) ==
    LET InContext(candidate, pos) ==
            /\ pos # -1
            /\ AnyIn(<<<<"p", "o", "l", "i", "c", "y">>,
                           <<"n", "u", "m", "b", "e", "r">>,
                           <<"i", "d">>,
                           <<"n", "o">>,
                           <<"#">>>>,
                     get_context(text, pos, Len(candidate), 50))
        Near(candidate) ==
            InContext(candidate, StrFind(StrUpper(text), StrUpper(candidate)))
        Best(candidates, near) ==
            IF candidates = <<>> THEN NoValue
            ELSE IF near # <<>> THEN near[1]
            ELSE candidates[1]
        Among(candidates) == Best(candidates, SelectSeq(candidates, Near))
    IN  Among(PolicyCandidates(text, 1))

\* EntityExtractor._validate_name
validate_name(raw) ==
    LET text  == StrStrip(raw)
        words == StrSplit(text)
    IN  /\ ~(Len(text) < 2 \/ Len(text) > 50)
        /\ ~AnyIn(<<<<"i", "n", "s", "u", "r", "i", "n", "g">>,
                    <<"a", "g", "r", "e", "e", "m", "e", "n", "t">>,
                    <<"l", "i", "a", "b", "i", "l", "i", "t", "y">>,
                    <<"c", "o", "v", "e", "r", "a", "g", "e">>,
                    <<"p", "r", "e", "m", "i", "u", "m">>,
                    <<"d", "e", "d", "u", "c", "t", "i", "b", "l", "e">>,
                    <<"l", "i", "m", "i", "t">>,
                    <<"p", "o", "l", "i", "c", "y">>,
                    <<"c", "l", "a", "i", "m", "s">>>>,
                  StrLower(text))
        /\ ~ReMatch(DateLike, text)
        /\ ~ReMatch(AllDigits, text)
        /\ ~ReMatch(AmountLike, text)
        /\ Len(words) >= 2 =>
              \A k \in 1..Len(words) : words[k][1] \in UpperLetters

\* EntityExtractor._extract_insured_name
RECURSIVE extract_insured_name(_, _)
extract_insured_name(text, i) ==
    IF i > Len(name_contexts) THEN NoValue
    ELSE LET Valid(matches) ==
                 SelectSeq(matches, LAMBDA m : validate_name(m.str))
             Returned(valid) ==
                 IF valid # <<>> THEN StrStrip(valid[1].str)
                 ELSE extract_insured_name(text, i + 1)
         IN  Returned(Valid(FindallIgnoreCase(name_contexts[i], text)))

\* int(digits), str(n) and f"{n:,}"
RECURSIVE ParseInt(_)
ParseInt(digits) ==
    IF digits = <<>> THEN 0
    ELSE 10 * ParseInt(SubSeq(digits, 1, Len(digits) - 1))
            + (CHOOSE d \in 0..9 : ToString(d) = digits[Len(digits)])

RECURSIVE IntToStr(_)
IntToStr(n) ==
    IF n < 10 THEN <<ToString(n)>>
    ELSE IntToStr(n \div 10) \o <<ToString(n % 10)>>

WithCommas(n) ==
    LET digits == IntToStr(n)
        Group(i) == IF i > 1 /\ (Len(digits) - i + 1) % 3 = 0
                    THEN <<",", digits[i]>> ELSE <<digits[i]>>
    IN  StrJoin(<<>>, [i \in 1..Len(digits) |-> Group(i)])

\* EntityExtractor._format_currency for the strings the currency pattern
\* yields: digits and commas, then nothing or a point and two digits
\* (float() accepts them all).
format_currency(amount) ==
    LET clean    == SelectSeq(amount, LAMBDA c : c \notin {"$", ","})
        point    == StrFind(clean, <<".">>)
        whole    == IF point = -1 THEN clean ELSE StrSlice(clean, 0, point)
        decimals == IF point = -1 THEN <<>> ELSE StrSlice(clean, point + 1, Len(clean))
    IN  IF ParseInt(decimals) = 0
        THEN <<"$">> \o WithCommas(ParseInt(whole))
        ELSE <<"$">> \o WithCommas(ParseInt(whole)) \o <<".">> \o decimals

\* EntityExtractor._classify_financial_context; "" is None.
classify_financial_context(context) ==
    IF AnyIn(<<<<"p", "r", "e", "m", "i", "u", "m">>,
               <<"a", "n", "n", "u", "a", "l", " ", "p", "r", "e", "m", "i", "u", "m">>,
               <<"p", "a", "y", "m", "e", "n", "t">>,
               <<"f", "e", "e">>,
               <<"a", "m", "o", "u", "n", "t", " ", "d", "u", "e">>>>,
             context) THEN "premium_amount"
    ELSE IF AnyIn(<<<<"d", "e", "d", "u", "c", "t", "i", "b", "l", "e">>,
                    <<"e", "x", "c", "e", "s", "s">>,
                    <<"r", "e", "t", "e", "n", "t", "i", "o", "n">>>>,
                  context) THEN "deductible"
    ELSE IF AnyIn(<<<<"l", "i", "m", "i", "t">>,
                    <<"m", "a", "x", "i", "m", "u", "m">>,
                    <<"c", "o", "v", "e", "r", "a", "g", "e">>,
                    <<"s", "u", "m", " ", "i", "n", "s", "u", "r", "e", "d">>,
                    <<"l", "i", "a", "b", "i", "l", "i", "t", "y", " ", "l", "i", "m", "i", "t">>>>,
                  context) THEN "coverage_limit"
    ELSE IF AnyIn(<<<<"v", "a", "l", "u", "e">>,
                    <<"w", "o", "r", "t", "h">>,
                    <<"e", "s", "t", "i", "m", "a", "t", "e", "d">>,
                    <<"a", "p", "p", "r", "a", "i", "s", "e", "d">>>>,
                  context) THEN "estimated_value"
    ELSE ""

\* The classification in _extract_dates; "" is no assignment.
classify_date_context(context) ==
    IF AnyIn(<<<<"e", "f", "f", "e", "c", "t", "i", "v", "e">>,
               <<"s", "t", "a", "r", "t">>,
               <<"c", "o", "m", "m", "e", "n", "c", "e">>,
               <<"i", "n", "c", "e", "p", "t", "i", "o", "n">>>>,
             context) THEN "effective_date"
    ELSE IF AnyIn(<<<<"e", "x", "p", "i", "r">>,
                    <<"e", "n", "d">>,
                    <<"u", "n", "t", "i", "l">>,
                    <<"t", "e", "r", "m", "i", "n", "a", "t">>>>,
                  context) THEN "expiry_date"
    ELSE IF AnyIn(<<<<"d", "a", "t", "e", " ", "o", "f", " ", "b", "i", "r", "t", "h">>,
                    <<"d", "o", "b">>,
                    <<"b", "o", "r", "n">>>>,
                  context) THEN "birth_date"
    ELSE IF AnyIn(<<<<"s", "i", "g", "n">>,
                    <<"e", "x", "e", "c", "u", "t", "e">>,
                    <<"d", "a", "t", "e", "d">>>>,
                  context) THEN "signature_date"
    ELSE ""

\* The matches of _extract_financials in processing order, each with the
\* category and the value its loop body computes; the context is taken at
\* text.find(amount).
ClassifiedAmounts(text) ==
    LET Classified(amount, at) ==
            [type  |-> classify_financial_context(
                           get_context(text, StrFind(text, amount),
                                       Len(amount), 30)),
             value |-> format_currency(amount),
             str   |-> amount,
             at    |-> at]
        Each(matches) ==
            [i \in 1..Len(matches) |-> Classified(matches[i].str, matches[i].at)]
    IN  Each(Findall(currency_patterns[1], text))

\* all_dates of _extract_dates, each with the category its loop body
\* computes; the context is taken at text.find(date_str).
ClassifiedDates(text) ==
    LET Classified(date_str, at) ==
            [type  |-> classify_date_context(
                           get_context(text, StrFind(text, date_str),
                                       Len(date_str), 30)),
             value |-> date_str,
             str   |-> date_str,
             at    |-> at]
        Each(all_dates) ==
            [i \in 1..Len(all_dates) |->
                Classified(all_dates[i].str, all_dates[i].at)]
    IN  Each(FindallIgnoreCase(date_patterns[1], text)
                \o FindallIgnoreCase(date_patterns[2], text)
                \o FindallIgnoreCase(date_patterns[3], text))

Types(items) == { items[i].type : i \in 1..Len(items) } \ {""}

\* The dict a loop leaves that assigns a category only while the dict
\* lacks it: `if entity_type and entity_type not in financials`.
AssignIfAbsent(items) ==
    [t \in Types(items) |->
        items[CHOOSE i \in 1..Len(items) :
                 /\ items[i].type = t
                 /\ \A j \in 1..(i - 1) : items[j].type # t].value]

\* The dict a loop leaves that assigns on every turn: `dates[...] = date_str`.
AssignAlways(items) ==
    [t \in Types(items) |->
        items[CHOOSE i \in 1..Len(items) :
                 /\ items[i].type = t
                 /\ \A j \in (i + 1)..Len(items) : items[j].type # t].value]

\* EntityExtractor._extract_financials and _extract_dates
extract_financials(text) == AssignIfAbsent(ClassifiedAmounts(text))
extract_dates(text) == AssignAlways(ClassifiedDates(text))

\* EntityExtractor._detect_policy_type
detect_policy_type(text) ==
    LET text_lower == StrLower(text)
    IN  IF AnyIn(<<<<"a", "u", "t", "o">>,
                   <<"a", "u", "t", "o", "m", "o", "b", "i", "l", "e">>,
                   <<"v", "e", "h", "i", "c", "l", "e">>,
                   <<"c", "a", "r">>>>, text_lower)
        THEN <<"A", "u", "t", "o", " ", "I", "n", "s", "u", "r", "a", "n", "c", "e">>
        ELSE IF AnyIn(<<<<"h", "o", "m", "e">>,
                        <<"h", "o", "m", "e", "o", "w", "n", "e", "r">>,
                        <<"p", "r", "o", "p", "e", "r", "t", "y">>,
                        <<"d", "w", "e", "l", "l", "i", "n", "g">>>>, text_lower)
        THEN <<"H", "o", "m", "e", " ", "I", "n", "s", "u", "r", "a", "n", "c", "e">>
        ELSE IF AnyIn(<<<<"h", "e", "a", "l", "t", "h">>,
                        <<"m", "e", "d", "i", "c", "a", "l">>,
                        <<"h", "o", "s", "p", "i", "t", "a", "l">>>>, text_lower)
        THEN <<"H", "e", "a", "l", "t", "h", " ", "I", "n", "s", "u", "r", "a", "n", "c", "e">>
        ELSE IF AnyIn(<<<<"l", "i", "f", "e">>,
                        <<"d", "e", "a", "t", "h", " ", "b", "e", "n", "e", "f", "i", "t">>>>, text_lower)
        THEN <<"L", "i", "f", "e", " ", "I", "n", "s", "u", "r", "a", "n", "c", "e">>
        ELSE IF AnyIn(<<<<"b", "u", "s", "i", "n", "e", "s", "s">>,
                        <<"c", "o", "m", "m", "e", "r", "c", "i", "a", "l">>,
                        <<"c", "o", "m", "m", "e", "r", "c", "i", "a", "l", " ", "g", "e", "n", "e", "r", "a", "l">>>>, text_lower)
        THEN <<"B", "u", "s", "i", "n", "e", "s", "s", " ", "I", "n", "s", "u", "r", "a", "n", "c", "e">>
        ELSE IF AnyIn(<<<<"t", "r", "a", "v", "e", "l">>,
                        <<"t", "r", "i", "p">>>>, text_lower)
        THEN <<"T", "r", "a", "v", "e", "l", " ", "I", "n", "s", "u", "r", "a", "n", "c", "e">>
        ELSE NoValue

\* EntityExtractor.extract_all_entities: the dict as a function of its keys.
extract_all_entities(text) ==
    LET PolicyNumber(policy_number) ==
            IF policy_number # NoValue /\ validate_policy_number(policy_number)
            THEN "policy_number" :> policy_number ELSE EmptyDict
        InsuredName(insured_name) ==
            IF insured_name # NoValue /\ validate_name(insured_name)
            THEN "insured_name" :> insured_name ELSE EmptyDict
        PolicyType(policy_type) ==
            IF policy_type # NoValue
            THEN "policy_type" :> policy_type ELSE EmptyDict
    IN  PolicyType(detect_policy_type(text))
            @@ extract_dates(text)
            @@ extract_financials(text)
            @@ InsuredName(extract_insured_name(text, 1))
            @@ PolicyNumber(extract_policy_number(text))

\* The texts drawn: the sample text of the specification, and clauses in
\* a row, each a keyword and an amount or a date, next to each other or
\* further apart than a context window.
MaxClauses == 2

SampleText ==
    <<"P", "o", "l", "i", "c", "y", " ", "N", "u", "m", "b", "e", "r",
      ":", " ", "P", "O", "L", "-", "2", "0", "2", "4", "-", "9", "9",
      "8", "1", ",", " ", "E", "f", "f", "e", "c", "t", "i", "v", "e",
      " ", "D", "a", "t", "e", ":", " ", "M", "a", "r", "c", "h", " ",
      "1", ",", " ", "2", "0", "2", "4", ",", " ", "P", "r", "e", "m",
      "i", "u", "m", ":", " ", "$", "1", ",", "2", "0", "0", ".", "0",
      "0">>

Clauses ==
    {<<"P", "r", "e", "m", "i", "u", "m", " ", "$", "1", "0", "0", ".",
       "0", "0">>,
     <<"p", "a", "y", "m", "e", "n", "t", " ", "$", "2", "0", "0", ".",
       "0", "0">>,
     <<"D", "e", "d", "u", "c", "t", "i", "b", "l", "e", " ", "$", "1",
       "0", "0", ".", "0", "0">>,
     <<"E", "f", "f", "e", "c", "t", "i", "v", "e", " ", "0", "1", "/",
       "0", "2", "/", "2", "0", "2", "4">>,
     <<"s", "t", "a", "r", "t", " ", "0", "3", "/", "0", "4", "/", "2",
       "0", "2", "4">>,
     <<"e", "x", "p", "i", "r", "e", "s", " ", "0", "1", "/", "0", "2",
       "/", "2", "0", "2", "4">>}

Near == <<",", " ">>
Far ==
    <<";", " ", "s", "e", "e", " ", "t", "h", "e", " ", "s", "c", "h",
      "e", "d", "u", "l", "e", " ", "a", "t", "t", "a", "c", "h", "e",
      "d", " ", "b", "e", "l", "o", "w", ";", " ">>

EntityTexts ==
    {SampleText} \cup
    { StrJoin(sep, clauses) :
        clauses \in (SeqsUpTo(Clauses, MaxClauses) \ {<<>>}), sep \in {Near, Far} }

ExtractAllEntities ==
    /\ entry = Functions
    /\ fcall.fn = ""
    /\ \E text \in EntityTexts :
          fcall' = [fn |-> "extract_all_entities", input |-> text,
                    output |-> extract_all_entities(text)]
    /\ UNCHANGED <<ccVars, coVars, objVars, reqVars, psVars>>

NextFunctions ==
    \/ AdjustWordCount
    \/ CleanText
    \/ NormalizeText
    \/ SmartChunking
    \/ ExtractPolicySections
    \/ ExtractAllEntities

(***************************************************************************)
(* Concurrent requests of one agent                                        *)
(*                                                                         *)
(* The coroutines of summarize_policy_document run on one event loop and   *)
(* interleave at their awaits only.  They share self.summarizer and        *)
(* self._model_loaded; everything else is local to a request.  A coroutine *)
(* is modelled by its suspension points and by the handle each of its      *)
(* capability calls read from self.summarizer.                             *)
(***************************************************************************)
Concurrent == "Concurrent"

MaxCoroutines == 2
MaxStarted == 3

Coroutines == 1..MaxCoroutines

NotStarted == [pc |-> "Idle", used |-> {}]

\* The phases in which a coroutine awaits capability calls, in order.
CallingPhases == <<"Summarizing", "Refining", "SummarizingSections">>

\* agent.summarize_policy_document(...) is called: up to the first await.
CoStart(t) ==
    /\ entry = Concurrent
    /\ coroutines[t].pc \in {"Idle", "Done", "Failed"}
    /\ started < MaxStarted
    /\ started' = started + 1
    /\ coroutines' = [coroutines EXCEPT ![t] = [pc |-> "Extracting", used |-> {}]]
    /\ UNCHANGED <<ccVars, fnVars, objVars, reqVars, psVars>>

\* extract_text_async raised, or returned a near-empty text, or a step
\* before load_model raised: the coroutine returns a failure result.
CoFailsBeforeLoad(t) ==
    /\ entry = Concurrent
    /\ coroutines[t].pc = "Extracting"
    /\ coroutines' = [coroutines EXCEPT ![t].pc = "Failed"]
    /\ UNCHANGED <<ccVars, fnVars, objVars, reqVars, psVars, started>>

\* extract_text_async returned: lines 51-65 run without suspension, with
\* load_model among them.  pipeline(...) may raise when it is called.
CoExtractionReturns(t, pipeline_raises) ==
    /\ entry = Concurrent
    /\ coroutines[t].pc = "Extracting"
    /\ IF pipeline_raises
       THEN /\ ~model_loaded
            /\ coroutines' = [coroutines EXCEPT ![t].pc = "Failed"]
            /\ UNCHANGED objVars
       ELSE /\ summarizer' = load_model(summarizer, model_loaded).summarizer
            /\ model_loaded' = load_model(summarizer, model_loaded).model_loaded
            /\ coroutines' = [coroutines EXCEPT ![t].pc = "Summarizing"]
    /\ UNCHANGED <<ccVars, fnVars, reqVars, psVars, started>>

\* An executor thread runs `lambda: self.summarizer(...)` for a call of
\* coroutine t: it reads self.summarizer when it runs.
CoCapabilityCall(t) ==
    /\ entry = Concurrent
    /\ coroutines[t].pc \in StepsOf(CallingPhases)
    /\ coroutines' = [coroutines EXCEPT ![t].used = @ \cup {summarizer}]
    /\ UNCHANGED <<ccVars, fnVars, objVars, reqVars, psVars, started>>

\* The awaited calls are over: the next phase, or the end of the request.
CoAdvance(t) ==
    /\ entry = Concurrent
    /\ coroutines[t].pc \in StepsOf(CallingPhases)
    /\ coroutines' = [coroutines EXCEPT ![t].pc =
            IF coroutines[t].pc = "Summarizing" THEN "Refining"
            ELSE IF coroutines[t].pc = "Refining" THEN "SummarizingSections"
            ELSE "Done"]
    /\ UNCHANGED <<ccVars, fnVars, objVars, reqVars, psVars, started>>

\* An exception reaches the top-level handler while the coroutine awaits.
CoFails(t) ==
    /\ entry = Concurrent
    /\ coroutines[t].pc \in StepsOf(CallingPhases)
    /\ coroutines' = [coroutines EXCEPT ![t].pc = "Failed"]
    /\ UNCHANGED <<ccVars, fnVars, objVars, reqVars, psVars, started>>

NextConcurrent ==
    \/ \E t \in Coroutines : CoStart(t)
    \/ \E t \in Coroutines : CoFailsBeforeLoad(t)
    \/ \E t \in Coroutines, r \in BOOLEAN : CoExtractionReturns(t, r)
    \/ \E t \in Coroutines : CoCapabilityCall(t)
    \/ \E t \in Coroutines : CoAdvance(t)
    \/ \E t \in Coroutines : CoFails(t)

NoCoroutines ==
    /\ coroutines = [t \in Coroutines |-> NotStarted]
    /\ started = 0

(***************************************************************************)
(* Specifications                                                          *)
(***************************************************************************)
\* The agent as constructed by __init__, with no request made yet.
AgentConstructed(e) ==
    /\ summarizer = 0
    /\ model_loaded = FALSE
    /\ entry = e
    /\ req = 0
    /\ pc = "Idle"
    /\ fast_pc = "idle"
    /\ doc = NoDoc
    /\ chunks = <<>>
    /\ policy_sections = <<>>
    /\ calls = <<>>
    /\ completion = <<>>
    /\ fast_result = <<>>
    /\ combined_summary = <<>>
    /\ refined_summary = <<>>
    /\ summary_text = <<>>
    /\ summarized_sections = <<>>
    /\ result = NoResult
    /\ steps = <<>>
    /\ raised_at = ""
    /\ timed_out = FALSE

\* No compliance check under way.
ComplianceIdle ==
    /\ cc_text = <<>>
    /\ cc_pc = "input"
    /\ cc_report = InitialResults
    /\ cc_recommendations = <<>>

InitCompliance ==
    /\ cc_text \in ComplianceTexts
    /\ cc_pc = "input"
    /\ cc_report = InitialResults
    /\ cc_recommendations = <<>>
    /\ AgentConstructed("ComplianceChecker")
    /\ SummarizerIdle
    /\ fcall = NoCall
    /\ NoCoroutines

\* checker.check_policy_compliance(clean_text)
CheckPolicyCompliance ==
    /\ entry = "ComplianceChecker"
    /\ cc_pc = "input"
    /\ cc_report' = check_policy_compliance(cc_text)
    /\ cc_pc' = "checked"
    /\ UNCHANGED <<cc_text, cc_recommendations, fnVars, coVars, objVars,
                   reqVars, psVars>>

\* checker.get_recommendations(compliance_report), as app.py calls it on
\* the report just produced.
GetRecommendations ==
    /\ entry = "ComplianceChecker"
    /\ cc_pc = "checked"
    /\ cc_recommendations' = get_recommendations(cc_report)
    /\ cc_pc' = "recommended"
    /\ UNCHANGED <<cc_text, cc_report, fnVars, coVars, objVars, reqVars, psVars>>

NextCompliance ==
    \/ CheckPolicyCompliance
    \/ GetRecommendations

SpecCompliance == InitCompliance /\ [][NextCompliance]_vars

Init ==
    /\ ComplianceIdle
    /\ \E e \in {Agent, Summarizer, Functions} : AgentConstructed(e)
    /\ SummarizerIdle
    /\ fcall = NoCall
    /\ NoCoroutines

Next == NextAgent \/ NextSummarizer \/ NextFunctions

Spec == Init /\ [][Next]_vars

InitConcurrent ==
    /\ ComplianceIdle
    /\ AgentConstructed(Concurrent)
    /\ SummarizerIdle
    /\ fcall = NoCall
    /\ NoCoroutines

SpecConcurrent == InitConcurrent /\ [][NextConcurrent]_vars

(***************************************************************************)
(* Claims about the compliance checker                                     *)
(***************************************************************************)
\* What the text holds, counted directly on the lowered text.
MissingCount(text) ==
    Cardinality({n \in 1..Len(SectionOrder) :
                    ~SectionFound(Lower(text), SectionOrder[n])})
PresentRisks(text, level) ==
    {n \in 1..Len(RiskIndicators) :
        /\ RiskIndicators[n].risk_level = level
        /\ Contains(Lower(text), RiskIndicators[n].phrase)}
RawTotal(text) ==
    100 - 10 * MissingCount(text)
        - 15 * Cardinality(PresentRisks(text, "high"))
        - 5 * Cardinality(PresentRisks(text, "medium"))

\* C1: the compliance_score of every returned report is an integer with
\* 0 <= score <= 100, also when the raw total is below 0.
C1_ScoreInRange ==
    cc_pc = "checked" =>
        /\ cc_report.compliance_score \in Int
        /\ 0 <= cc_report.compliance_score
        /\ cc_report.compliance_score <= 100

\* C1 witness: all seven categories missing, every high and medium phrase
\* present (raw total -10), and the report has been returned.
C1_Witness ==
    /\ cc_pc = "checked"
    /\ MissingCount(cc_text) = 7
    /\ Cardinality(PresentRisks(cc_text, "high")) = 2
    /\ Cardinality(PresentRisks(cc_text, "medium")) = 2
    /\ RawTotal(cc_text) < 0
    /\ cc_report.compliance_score = 0

\* C2: the status tier of every returned report is determined by the final
\* score alone: >= 80 compliant, 60..79 review recommended, < 60 needs
\* attention; the tier function puts 80 in compliant, 79 in review and 59 in
\* needs attention.
C2_StatusMatchesScore ==
    /\ cc_pc = "checked" =>
          LET s == cc_report.compliance_score
          IN  /\ s >= 80 => cc_report.status = "COMPLIANT"
              /\ (60 <= s /\ s <= 79) => cc_report.status = "REVIEW RECOMMENDED"
              /\ s < 60 => cc_report.status = "NEEDS ATTENTION"
    /\ StatusOf(80) = "COMPLIANT"
    /\ StatusOf(79) = "REVIEW RECOMMENDED"
    /\ StatusOf(60) = "REVIEW RECOMMENDED"
    /\ StatusOf(59) = "NEEDS ATTENTION"

\* C2 witness: a returned report that sits exactly on the upper boundary.
C2_Witness ==
    /\ cc_pc = "checked"
    /\ cc_report.compliance_score = 80
    /\ cc_report.status = "COMPLIANT"

\* The present risk phrases in table order, as risk_flags must list them.
RECURSIVE ExpectedFlags(_, _)
ExpectedFlags(text, n) ==
    IF n = 0 THEN <<>>
    ELSE ExpectedFlags(text, n - 1)
            \o (IF Contains(Lower(text), RiskIndicators[n].phrase)
                THEN <<RiskIndicators[n]>> ELSE <<>>)

\* C3: score = max(0, 100 - 10*m - 15*h - 5*d); a present low-severity phrase
\* subtracts nothing but is listed; risk_flags is exactly the present phrases
\* in table order.
C3_ScoreFormula ==
    cc_pc = "checked" =>
        /\ cc_report.compliance_score = Max(0, RawTotal(cc_text))
        /\ cc_report.risk_flags = ExpectedFlags(cc_text, Len(RiskIndicators))

\* C3 witness: a low-severity phrase is present and flagged, nothing else is
\* penalised, and the score is still 100.
C3_Witness ==
    /\ cc_pc = "checked"
    /\ PresentRisks(cc_text, "low") # {}
    /\ MissingCount(cc_text) = 0
    /\ PresentRisks(cc_text, "high") = {}
    /\ PresentRisks(cc_text, "medium") = {}
    /\ cc_report.compliance_score = 100
    /\ Len(cc_report.risk_flags) = 1
    /\ cc_report.risk_flags[1].risk_level = "low"

(***************************************************************************)
(* Claims about summarize_policy_document and the fan-outs                 *)
(***************************************************************************)
CallsFor(purpose) == {k \in 1..Len(calls) : calls[k].purpose = purpose}

\* The number of chunks the fan-out processes.
FanoutSize == Min(3, Len(chunks))

\* gather has returned and its results have been concatenated.
FanoutJoined == Len(chunks) > 1 /\ fast_pc \in {"merge", "done"}

\* The concatenation of the fan-out results, before any re-summarization.
FanoutText ==
    IF CallsFor("merge") # {}
    THEN calls[CHOOSE k \in CallsFor("merge") : TRUE].arg
    ELSE fast_result

\* C4: when the extracted text is empty or shorter than 100 characters, the
\* step that receives it returns a failure result with an empty summary at
\* once: nothing is chunked, load_model is not entered, no capability call is
\* issued, and the model-loaded state stays what it was.
C4_NearEmptyFailsFast ==
    [][ ( /\ pc = "Extracting"
          /\ pc' # "Extracting"
          /\ raised_at' = ""
          /\ (doc.chars = 0 \/ doc.chars < 100) )
        => /\ pc' = "Failed"
           /\ result'.success = FALSE
           /\ result'.summary = <<>>
           /\ chunks' = <<>>
           /\ calls' = <<>>
           /\ steps' = <<"extract_text_async">>
           /\ model_loaded' = model_loaded
           /\ summarizer' = summarizer ]_vars

\* C4 witness: a 99-character document is rejected by an agent whose model
\* an earlier request had loaded, and the model is still loaded.
C4_Witness ==
    /\ pc = "Failed"
    /\ doc.chars = 99
    /\ result = EmptyDocumentResult
    /\ req = 2
    /\ model_loaded
    /\ summarizer = 1
    /\ calls = <<>>
    /\ chunks = <<>>

SoftResult(i) ==
    IF calls[i].state = "raised" THEN Take(chunks[i], 100) ELSE calls[i].output

\* C6: a chunk call that raises is attempted once, its chunk is replaced by
\* the chunk's first 100 words, and no raising chunk call (not even all of
\* them) makes the request fail.
C6_ChunkFailureIsSoft ==
    /\ \A i \in 1..Len(chunks) :
          Cardinality({k \in CallsFor("chunk") : calls[k].index = i}) <= 1
    /\ FanoutJoined =>
          FanoutText = JoinAll([i \in 1..FanoutSize |-> SoftResult(i)])
    /\ (Len(chunks) = 1 /\ fast_pc = "done") => fast_result = SoftResult(1)
    /\ raised_at \notin {"_summarize_chunk", "_generate_fast_summary"}
    /\ (pc = "Done" /\ \E k \in CallsFor("chunk") : calls[k].state = "raised")
          => result.success = TRUE

\* C6 witness: all three chunk calls raised and the request ended with
\* success = true on the three excerpts.
C6_Witness ==
    /\ pc = "Done"
    /\ result.success = TRUE
    /\ Len(chunks) = 3
    /\ \A k \in 1..3 : calls[k].purpose = "chunk" /\ calls[k].state = "raised"
    /\ combined_summary =
          Take(chunks[1], 100) \o Take(chunks[2], 100) \o Take(chunks[3], 100)

\* C7: with three chunks, calls 1 and 3 returned and call 2 not returning
\* within its deadline, the fan-out finishes without failing the request and
\* the merged text is summary 1, the excerpt of chunk 2, summary 3.
C7_TimedOutChunkFallsBack ==
    ( /\ Len(chunks) = 3
      /\ Len(calls) >= 3
      /\ calls[1].state = "returned"
      /\ calls[3].state = "returned"
      /\ calls[2].state = "abandoned" )
    => /\ pc # "Failed"
       /\ FanoutJoined
       /\ FanoutText =
            calls[1].output \o Take(chunks[2], 100) \o calls[3].output

\* C7 witness: calls 1 and 3 returned, call 2 never did, and the request
\* ended when the 30 s budget expired, with the failure result of the
\* top-level handler and no merged text.
C7_Witness ==
    /\ Len(chunks) = 3
    /\ Len(calls) = 3
    /\ calls[1].state = "returned"
    /\ calls[3].state = "returned"
    /\ calls[2].state = "abandoned"
    /\ timed_out
    /\ pc = "Failed"
    /\ result = FailureResult(WaitForTimeout)
    /\ fast_result = <<>>

\* C8: for every completion order the merged text is the concatenation of
\* the per-chunk results in ascending chunk index, in _generate_fast_summary
\* and in summarize_policy_async.
C8_MergeInChunkOrder ==
    /\ FanoutJoined =>
          /\ Len(ValidResults([i \in 1..FanoutSize |->
                                  SummarizeChunkOutcome(calls[i])])) = FanoutSize
          /\ \A i \in 1..FanoutSize :
                LET before == JoinAll([j \in 1..(i - 1) |->
                                         SummarizeChunkOutcome(calls[j]).value])
                    mine   == SummarizeChunkOutcome(calls[i]).value
                IN  Take(FanoutText, WordCount(before) + WordCount(mine))
                        = before \o mine
    /\ ps_pc = "done" =>
          /\ Len(ps_result) = Len(ps_chunks)
          /\ \A i \in 1..Len(ps_chunks) : ps_result[i] = ps_tasks[i].value

\* C8 witness: the three calls completed in the order 3, 2, 1 and the merge
\* has been made.
C8_Witness ==
    /\ Len(chunks) = 3
    /\ fast_pc = "done"
    /\ Len(completion) >= 3
    /\ completion[1] = 3
    /\ completion[2] = 2
    /\ completion[3] = 1
    /\ calls[1].state = "returned"
    /\ calls[3].state = "returned"

\* The error details that name a timeout; the empty detail names nothing.
TimeoutMessages == {"Text extraction timed out after 10 seconds"}

\* The 30 s budget expired and the request ended in a failure, with no
\* refinement, length adjustment or per-section call started.
GlobalTimeoutFails ==
    timed_out =>
        /\ pc = "Failed"
        /\ result.success = FALSE
        /\ raised_at = "wait_for"
        /\ CallsFor("refine") = {}
        /\ CallsFor("section") = {}
        /\ "_refine_summary_style" \notin StepsOf(steps)
        /\ "_adjust_word_count" \notin StepsOf(steps)

\* C9: when the budget of the fan-out + merge phase expires, the request
\* ends in a failure result that reports a timeout error, never in a success
\* result, and no later phase is started.
C9_GlobalTimeoutReported ==
    timed_out =>
        /\ GlobalTimeoutFails
        /\ result.error.detail \in TimeoutMessages

\* C9 witness: the budget expired during the fan-out and the request ended
\* in a failure result whose error is the bare prefix.
C9_Witness ==
    /\ timed_out
    /\ pc = "Failed"
    /\ fast_pc = "gather"
    /\ result.success = FALSE
    /\ result.error.prefix = "Summarization failed: "
    /\ result.error.detail = ""

\* C10: when the refinement call raises, _refine_summary_style returns the
\* text it was given, without the instruction prefix, the request goes on to
\* the length adjustment, and the failure result is never due to it.
C10_RefineFallsBack ==
    /\ raised_at # "_refine_summary_style"
    /\ \A k \in CallsFor("refine") :
          (calls[k].state = "raised" /\ pc # "Refining") =>
              /\ refined_summary = calls[k].arg
              /\ refined_summary = combined_summary
              /\ \A s \in 1..Len(refined_summary) :
                    refined_summary[s].src.kind # "refine_prefix"
              /\ "_adjust_word_count" \in StepsOf(steps)

\* C10 witness: the refinement call raised on a summarized three-chunk
\* document and the request ended with success = true.
C10_Witness ==
    /\ pc = "Done"
    /\ result.success = TRUE
    /\ Len(chunks) = 3
    /\ \E k \in CallsFor("refine") : calls[k].state = "raised"
    /\ refined_summary = combined_summary
    /\ combined_summary # <<>>
    /\ result.summary = combined_summary

(***************************************************************************)
(* Claims about the pure text functions                                    *)
(***************************************************************************)
Terminators == {".", "!", "?"}

\* s holds a sentence terminator.
HasTerminator(s) == \E i \in 1..Len(s) : s[i] \in Terminators

\* A cut of s after its first n characters falls at the end of a word.
AtWordEnd(s, n) == n = Len(s) \/ s[n + 1] \in Whitespace

\* C11: a summary of more than target words comes back as at most target
\* words, cut at the nearest sentence terminator before the word-boundary
\* cut and never inside a word; with no terminator in the first target words
\* it is those words plus "..."; a summary of at most target words comes
\* back unchanged.
C11_AdjustEndsAtSentence ==
    fcall.fn = "_adjust_word_count" =>
        LET summary == fcall.input.summary
            target  == fcall.input.target_words
            words   == StrSplit(summary)
            out     == fcall.output
            cut     == StrJoin(<<" ">>, SubSeq(words, 1, Min(target, Len(words))))
        IN  IF Len(words) <= target THEN out = summary
            ELSE /\ Len(StrSplit(out)) <= target
                 /\ IF HasTerminator(cut)
                    THEN /\ out # <<>>
                         /\ out = StrPrefix(cut, Len(out))
                         /\ out[Len(out)] \in Terminators
                         /\ AtWordEnd(cut, Len(out))
                         /\ \A i \in (Len(out) + 1)..Len(cut) :
                               cut[i] \notin Terminators
                    ELSE out = cut \o Ellipsis

\* C11 witness: "1.5 a a" with target 2 comes back as "1.", cut inside the
\* word "1.5".
C11_Witness ==
    /\ fcall.fn = "_adjust_word_count"
    /\ fcall.input.summary = <<"1", ".", "5", " ", "a", " ", "a">>
    /\ fcall.input.target_words = 2
    /\ fcall.output = <<"1", ".">>

\* The normalizer applied in a call, applied to a text.
Normalizer(fn, text) ==
    IF fn = "clean_text" THEN clean_text_str(text) ELSE normalize_text(text)

NormalizerCall == fcall.fn \in {"clean_text", "normalize_text"}

\* C12: normalization is idempotent, for clean_text and for normalize_text:
\* normalizing the output of a normalization returns it unchanged.
C12_NormalizeIdempotent ==
    NormalizerCall => Normalizer(fcall.fn, fcall.output) = fcall.output

\* C12 witness: clean_text("a @ a") is "a  a", which clean_text turns into
\* "a a".
C12_Witness ==
    /\ fcall.fn = "clean_text"
    /\ fcall.input = <<"a", " ", "@", " ", "a">>
    /\ fcall.output = <<"a", " ", " ", "a">>
    /\ clean_text_str(fcall.output) = <<"a", " ", "a">>

\* The characters of s that are in `class`, in order.
RECURSIVE Only(_, _)
Only(s, class) ==
    IF s = <<>> THEN <<>>
    ELSE (IF s[1] \in class THEN <<s[1]>> ELSE <<>>) \o Only(Tail(s), class)

\* What the normalizer must preserve: alphanumerics, the punctuation
\* allowlist and the currency symbol.
Preserved ==
    UpperLetters \cup LowerLetters \cup Digits
        \cup {".", ",", "!", "?", ";", ":", "(", ")", "-"} \cup {"$"}

\* C13: the normalizer's output is trimmed, holds no two whitespace
\* characters in a row, and keeps in order every alphanumeric, every
\* character of the allowlist .,!?;:()- and every $ of the input.
C13_NormalizedForm ==
    NormalizerCall =>
        LET out == fcall.output
        IN  /\ out # <<>> => (out[1] \notin Whitespace
                              /\ out[Len(out)] \notin Whitespace)
            /\ \A i \in 1..(Len(out) - 1) :
                  ~(out[i] \in Whitespace /\ out[i + 1] \in Whitespace)
            /\ Only(out, Preserved) = Only(fcall.input, Preserved)

\* C13 witness: normalize_text("a@ a") is "a  a", with two spaces in a row.
C13_Witness ==
    /\ fcall.fn = "normalize_text"
    /\ fcall.input = <<"a", "@", " ", "a">>
    /\ fcall.output = <<"a", " ", " ", "a">>

\* C14: a non-empty text of at most chunk_size words is chunked, after
\* normalization, into exactly one chunk, equal to the normalized text
\* character for character; the empty text is chunked into the empty list.
C14_SingleChunkIsNormalizedText ==
    fcall.fn = "smart_chunking" =>
        LET raw_text == fcall.input.raw_text
        IN  /\ raw_text = <<>> => fcall.output.chunks = <<>>
            /\ ( /\ raw_text # <<>>
                 /\ Len(StrSplit(raw_text)) <= fcall.input.chunk_size )
               => fcall.output.chunks = <<clean_text_str(raw_text)>>

\* C14 witness: "a @ b" is normalized to "a  b" and chunked into the single
\* chunk "a b".
C14_Witness ==
    /\ fcall.fn = "smart_chunking"
    /\ fcall.input.raw_text = <<"a", " ", "@", " ", "b">>
    /\ fcall.input.chunk_size = 1000
    /\ fcall.output.clean_text = <<"a", " ", " ", "b">>
    /\ fcall.output.chunks = << <<"a", " ", "b">> >>

\* C15: smart_chunking returns at most 3 chunks for every text and every
\* chunk_size > overlap >= 0, and the fan-out of a request never has more
\* than 3 chunk calls, running or finished.
C15_AtMostThreeChunks ==
    /\ fcall.fn = "smart_chunking" =>
          /\ fcall.input.chunk_size > fcall.input.overlap
          /\ fcall.input.overlap >= 0
          /\ Len(fcall.output.chunks) <= 3
    /\ Len(chunks) <= 3
    /\ Cardinality(CallsFor("chunk")) <= 3

\* C15 witness: five words with windows of one word and no overlap, which
\* five windows would cover, are chunked into the first three.
C15_Witness ==
    /\ fcall.fn = "smart_chunking"
    /\ fcall.input.chunk_size = 1
    /\ fcall.input.overlap = 0
    /\ Len(StrSplit(fcall.output.clean_text)) = 5
    /\ Len(fcall.output.chunks) = 3

(***************************************************************************)
(* Claims about concurrent requests                                        *)
(***************************************************************************)
\* C16: across every sequence and interleaving of requests of one agent the
\* capability handle is successfully initialized at most once (it is the
\* first pipeline built or none), every capability call of every request
\* uses that handle, and once initialized the handle is never reassigned or
\* reset.
C16_HandleInitializedOnce ==
    /\ [](/\ summarizer \in {0, 1}
          /\ model_loaded <=> summarizer = 1
          /\ \A t \in Coroutines : coroutines[t].used \subseteq {1})
    /\ [][model_loaded => (model_loaded' /\ summarizer' = summarizer)]_vars

\* C16 witness: two requests are in flight at once, the second started
\* after the first had loaded the model, a third request was made before,
\* and the calls of both used handle 1.
C16_Witness ==
    /\ started = 3
    /\ coroutines[1].pc = "Refining"
    /\ coroutines[2].pc = "Summarizing"
    /\ coroutines[1].used = {1}
    /\ coroutines[2].used = {1}
    /\ summarizer = 1

\* The titles that are keys of a returned mapping.
Keys(sections) == { sections[k].title : k \in 1..Len(sections) }

\* C17: the section detector recognizes the configured title list: in a
\* text of at least 100 characters every configured title that stands as a
\* heading (any letter case, with or without --- markers) followed by more
\* than five words of content is a key of the mapping returned, and every
\* key is a configured title.
C17_RecognizesConfiguredTitles ==
    fcall.fn = "extract_policy_sections" =>
        /\ Keys(fcall.output) \subseteq StepsOf(SECTION_TITLES)
        /\ \A k \in 1..Len(fcall.input.headings) :
              LET h == fcall.input.headings[k]
              IN  (/\ Len(fcall.input.text) >= MinSectionTextChars
                   /\ h.content.words > MinSectionWords)
                      => h.title \in Keys(fcall.output)

\* C17 witness: a text of more than 100 characters with the bare lower-case
\* heading "exclusions" followed by six words yields the key EXCLUSIONS.
C17_Witness ==
    /\ fcall.fn = "extract_policy_sections"
    /\ Len(fcall.input.headings) = 1
    /\ fcall.input.headings[1].title = "EXCLUSIONS"
    /\ fcall.input.headings[1].lower
    /\ ~fcall.input.headings[1].delimited
    /\ Len(fcall.input.text) >= MinSectionTextChars
    /\ Keys(fcall.output) = {"EXCLUSIONS"}

(***************************************************************************)
(* Claims about the entity extractor                                       *)
(***************************************************************************)
\* Does the dict hold the value under the key?
Holds(dict, key, value) == key \in DOMAIN dict /\ dict[key] = value

\* C18: for the sample text "Policy Number: POL-2024-9981, Effective Date:
\* March 1, 2024, Premium: $1,200.00" extract_all_entities yields
\* policy_number "POL-2024-9981", effective_date "March 1, 2024" and
\* premium_amount "$1,200.00".
C18_SampleTextEntities ==
    (fcall.fn = "extract_all_entities" /\ fcall.input = SampleText) =>
        /\ Holds(fcall.output, "policy_number",
                 <<"P", "O", "L", "-", "2", "0", "2", "4", "-", "9", "9", "8", "1">>)
        /\ Holds(fcall.output, "effective_date",
                 <<"M", "a", "r", "c", "h", " ", "1", ",", " ", "2", "0", "2", "4">>)
        /\ Holds(fcall.output, "premium_amount",
                 <<"$", "1", ",", "2", "0", "0", ".", "0", "0">>)

\* C18 witness: the sample text has been processed; the date is the one
\* expected, the policy number is cut at its second dash and the premium
\* has lost its decimals.
C18_Witness ==
    /\ fcall.fn = "extract_all_entities"
    /\ fcall.input = SampleText
    /\ DOMAIN fcall.output = {"policy_number", "effective_date", "premium_amount"}
    /\ fcall.output["effective_date"] =
            <<"M", "a", "r", "c", "h", " ", "1", ",", " ", "2", "0", "2", "4">>
    /\ fcall.output["policy_number"] = <<"P", "O", "L", "-", "2", "0", "2", "4">>
    /\ fcall.output["premium_amount"] = <<"$", "1", ",", "2", "0", "0">>


\* The value of the first of the items classified into the category.
FirstOf(items, type) ==
    LET classified == SelectSeq(items, LAMBDA item : item.type = type)
    IN  classified[1].value

\* C19: extract_all_entities returns at most one value per category, and
\* for every monetary and every date category the value retained is that
\* of the first match, in processing order, classified into the category:
\* a later match of a filled category never replaces it.
C19_FirstMatchWins ==
    fcall.fn = "extract_all_entities" =>
        LET amounts == ClassifiedAmounts(fcall.input)
            dates   == ClassifiedDates(fcall.input)
        IN  /\ \A type \in Types(amounts) :
                  Holds(fcall.output, type, FirstOf(amounts, type))
            /\ \A type \in Types(dates) :
                  Holds(fcall.output, type, FirstOf(dates, type))

\* C19 witness: in "Effective 01/02/2024, start 03/04/2024" both dates are
\* classified as effective dates, and the second one is returned.
C19_Witness ==
    /\ fcall.fn = "extract_all_entities"
    /\ fcall.input =
            <<"E", "f", "f", "e", "c", "t", "i", "v", "e", " ", "0", "1", "/", "0", "2", "/", "2", "0", "2", "4", ",", " ", "s", "t", "a", "r", "t", " ", "0", "3", "/", "0", "4", "/", "2", "0", "2", "4">>
    /\ LET dates == ClassifiedDates(fcall.input)
       IN  /\ Len(dates) = 2
           /\ dates[1].type = "effective_date"
           /\ dates[2].type = "effective_date"
           /\ dates[1].value # dates[2].value
           /\ fcall.output["effective_date"] = dates[2].value

(***************************************************************************)
(* Claims about the recommendations                                        *)
(***************************************************************************)
Affirmative == Recommendation("Policy appears comprehensive")

AffirmativeReturned ==
    \E i \in 1..Len(cc_recommendations) : cc_recommendations[i] = Affirmative

CategoryMissing ==
    \E s \in DOMAIN cc_report.section_presence : ~cc_report.section_presence[s]

Flagged(levels) ==
    \E i \in 1..Len(cc_report.risk_flags) :
        cc_report.risk_flags[i].risk_level \in levels

\* C20, as stated: get_recommendations returns the affirmative message
\* exactly when the report has no missing required category and no high- or
\* medium-severity risk flag; when it is returned it is the only
\* recommendation; the list returned is never empty.
C20_AffirmativeIffNoPenalizingFlag ==
    cc_pc = "recommended" =>
        /\ AffirmativeReturned <=>
                (~CategoryMissing /\ ~Flagged({"high", "medium"}))
        /\ AffirmativeReturned => cc_recommendations = <<Affirmative>>
        /\ cc_recommendations # <<>>

\* C20, amended: get_recommendations returns the affirmative message
\* exactly when the report has no missing required category, no
\* high-severity risk flag and a score of at least 85 (medium-severity
\* flags do not prevent it); when it is returned it is the only
\* recommendation; the list returned is never empty.
C20_AffirmativeIffNothingToRecommend ==
    cc_pc = "recommended" =>
        /\ AffirmativeReturned <=>
                (/\ ~CategoryMissing
                 /\ ~Flagged({"high"})
                 /\ cc_report.compliance_score >= SpecialistReviewBelow)
        /\ AffirmativeReturned => cc_recommendations = <<Affirmative>>
        /\ cc_recommendations # <<>>

\* C20 witness: a report with every category present, medium-severity
\* flags only and a score of 90, for which the affirmative message alone is
\* returned.
C20_Witness ==
    /\ cc_pc = "recommended"
    /\ MissingCount(cc_text) = 0
    /\ PresentRisks(cc_text, "high") = {}
    /\ Cardinality(PresentRisks(cc_text, "medium")) = 2
    /\ cc_report.compliance_score = 90
    /\ cc_recommendations = <<Affirmative>>

\* Does the text drawn hold a heading the expression of
\* extract_policy_sections enumerates?
HasEnumeratedHeading(headings) ==
    \E k \in 1..Len(headings) :
        \E i \in 1..Len(SectionTitlePattern) :
            headings[k].title = SectionTitlePattern[i]

\* C21: extract_policy_sections returns a mapping ordered by text position:
\* iterating it visits the entries in ascending position of the heading
\* occurrence whose content each entry holds, also when a title occurs more
\* than once; the mapping is empty when the text has fewer than 100
\* characters or holds no enumerated heading.
C21_OrderedByPosition ==
    fcall.fn = "extract_policy_sections" =>
        /\ \A j, k \in 1..Len(fcall.output) :
              j < k => fcall.output[j].at < fcall.output[k].at
        /\ (\/ Len(StrStrip(fcall.input.text)) < MinSectionTextChars
            \/ ~HasEnumeratedHeading(fcall.input.headings))
              => fcall.output = <<>>

\* C21 witness: EXCLUSIONS, YOUR LIABILITY, EXCLUSIONS, each with six words:
\* the mapping lists EXCLUSIONS first, holding the content of the third
\* heading, and YOUR LIABILITY second, holding the content of the second.
C21_Witness ==
    /\ fcall.fn = "extract_policy_sections"
    /\ Len(fcall.input.headings) = 3
    /\ fcall.input.headings[1].title = "EXCLUSIONS"
    /\ fcall.input.headings[2].title = "YOUR LIABILITY"
    /\ fcall.input.headings[3].title = "EXCLUSIONS"
    /\ \A k \in 1..3 : fcall.input.headings[k].content.words > MinSectionWords
    /\ Len(fcall.output) = 2
    /\ fcall.output[1].title = "EXCLUSIONS"
    /\ fcall.output[2].title = "YOUR LIABILITY"
    /\ fcall.output[1].at > fcall.output[2].at

(***************************************************************************)
(* Claims about the phases of a request                                    *)
(***************************************************************************)
PhaseOrder ==
    <<"Extracted", "Chunked", "Summarizing", "Refining", "LengthAdjusted">>

\* The step whose entry shows that a phase was reached: clean_text is entered
\* once the text is extracted and found long enough, load_model once
\* smart_chunking returned, structuring once _adjust_word_count returned.
PhaseEntry ==
    <<"clean_text", "load_model", "_generate_fast_summary",
      "_refine_summary_style", "structuring">>

\* The phases a request has reached, in the order it reached them.
PhasesPassed ==
    LET entries == SelectSeq(steps, LAMBDA s : s \in StepsOf(PhaseEntry))
    IN  [k \in 1..Len(entries) |->
            PhaseOrder[CHOOSE i \in 1..Len(PhaseEntry) : PhaseEntry[i] = entries[k]]]

\* The phase the request is in; "" before Extracted.
Phase ==
    IF pc \in {"Done", "Failed"} THEN pc
    ELSE IF PhasesPassed = <<>> THEN ""
    ELSE PhasesPassed[Len(PhasesPassed)]

\* The coroutine is about to run its next stretch in the phase, and a step
\* of that stretch can raise.
FailureEnabled ==
    /\ (pc = "Extracting" /\ ~IsNearEmpty(doc)) =>
          /\ ENABLED (ExtractionReturns /\ raised_at' = "smart_chunking")
          /\ ENABLED (ExtractionReturns /\ raised_at' = "extract_policy_sections")
    /\ (pc = "Summarizing" /\ fast_pc # "done") => ENABLED GlobalTimeout
    /\ (pc = "Refining" /\ Finished(calls[Len(calls)])) =>
          /\ ENABLED (RefineDone /\ raised_at' = "_adjust_word_count")
          /\ ENABLED (RefineDone /\ raised_at' = "structuring")
    /\ (/\ pc = "SummarizingSections"
        /\ Finished(calls[Len(calls)])
        /\ calls[Len(calls)].index = Len(policy_sections)) =>
          ENABLED (SectionDone /\ raised_at' = "readability")

\* The phase a failed request was in when it failed is the last it reached.
FailedFrom(phase) ==
    /\ pc = "Failed"
    /\ PhasesPassed # <<>>
    /\ PhasesPassed[Len(PhasesPassed)] = phase

\* C22: a request passes through Extracted, Chunked, Summarizing, Refining,
\* LengthAdjusted and Done in this order, skipping and revisiting none; Done
\* and Failed are terminal (the request takes no step after either); a step
\* that raises leads to Failed from every other phase; a success result is
\* returned only from Done.
C22_PhasesInOrder ==
    /\ [](entry = Agent =>
            /\ PhasesPassed = SubSeq(PhaseOrder, 1, Len(PhasesPassed))
            /\ pc = "Done" => PhasesPassed = PhaseOrder
            /\ result.success <=> pc = "Done"
            /\ pc # "Escaped"
            /\ FailureEnabled)
    /\ [][(pc \in {"Done", "Failed"} /\ req' = req) => UNCHANGED reqVars]_vars

\* C22 witness: a request of a document with a section reached Done with a
\* success result, having passed the five phases before it in order.
C22_Witness ==
    /\ entry = Agent
    /\ pc = "Done"
    /\ result.success
    /\ PhasesPassed = PhaseOrder
    /\ summarized_sections # <<>>

\* The concatenation of the valid fan-out results, in task order.
FanoutConcatenation ==
    JoinAll(ValidResults([i \in 1..FanoutSize |-> SummarizeChunkOutcome(calls[i])]))

\* C23: in the multi-chunk merge one further summarization call, over the
\* concatenation, is issued exactly when the concatenation of the fan-out
\* results has more than 600 words; otherwise the concatenation is returned
\* unchanged and fan-out and merge issue exactly one capability call per
\* processed chunk.
C23_ResummarizeIffOverThreshold ==
    (entry = Agent /\ FanoutJoined) =>
        /\ \A i \in 1..FanoutSize :
              /\ calls[i].purpose = "chunk"
              /\ calls[i].index = i
              /\ calls[i].input = chunks[i]
        /\ CallsFor("chunk") = 1..FanoutSize
        /\ IF WordCount(FanoutConcatenation) > 600
           THEN /\ Cardinality(CallsFor("merge")) = 1
                /\ \A k \in CallsFor("merge") :
                      /\ k = FanoutSize + 1
                      /\ calls[k].input = FanoutConcatenation
           ELSE /\ CallsFor("merge") = {}
                /\ fast_pc = "done"
                /\ fast_result = FanoutConcatenation
                /\ pc = "Summarizing" => Len(calls) = FanoutSize

\* C23 witness: two summaries of 250 words and an excerpt of 100 words make a
\* concatenation of exactly 600 words, which is returned as it is.
C23_Witness ==
    /\ entry = Agent
    /\ FanoutJoined
    /\ FanoutSize = 3
    /\ WordCount(FanoutConcatenation) = 600
    /\ fast_pc = "done"
    /\ fast_result = FanoutConcatenation
    /\ Len(calls) = 3

\* The call issued for section i.
SectionCallOf(i) ==
    CHOOSE k \in CallsFor("section") : calls[k].index = i

\* Is the text a truncated verbatim excerpt of the content: its first words,
\* with or without a trailing "..."?
IsExcerptOf(text, content) ==
    \E n \in 1..WordCount(content) :
        text \in {Take(content, n), Take(content, n) \o <<EllipsisMark>>}

\* Does the text hold words of the instruction put before a section?
HoldsInstruction(text) ==
    \E k \in 1..Len(text) : text[k].src = SectionPrefix[1].src

\* C24: when the summarization call of a detected section fails, the value
\* stored for its title is a truncated verbatim excerpt of the section's
\* content alone, with no word of the instruction prefix; the remaining
\* sections are still processed and the request still succeeds.
C24_FailedSectionKeepsExcerpt ==
    entry = Agent =>
        /\ \A i \in 1..Len(summarized_sections) :
              /\ summarized_sections[i].title = policy_sections[i].title
              /\ calls[SectionCallOf(i)].state = "raised" =>
                    /\ IsExcerptOf(summarized_sections[i].summary,
                                   policy_sections[i].content)
                    /\ ~HoldsInstruction(summarized_sections[i].summary)
        /\ raised_at # "_summarize_chunk(section)"
        /\ pc = "Done" => /\ result.success
                          /\ Len(summarized_sections) = Len(policy_sections)

\* C24 witness: of two sections the call of the first raised; both sections
\* were processed and the request succeeded, and the value stored for the
\* first section is the instruction followed by the section's content.
C24_Witness ==
    /\ entry = Agent
    /\ pc = "Done"
    /\ result.success
    /\ Len(policy_sections) = 2
    /\ Len(summarized_sections) = 2
    /\ calls[SectionCallOf(1)].state = "raised"
    /\ calls[SectionCallOf(2)].state = "returned"
    /\ summarized_sections[1].summary
          = Join(SectionPrefix, policy_sections[1].content)
    /\ summarized_sections[2].summary = calls[SectionCallOf(2)].output

(***************************************************************************)
(* Claims about the windows of smart_chunking                              *)
(***************************************************************************)
\* The 0-based offsets at which a relevance keyword occurs in the text,
\* letter case ignored.
KeywordOffsets(text) ==
    { p - 1 : p \in { q \in 1..Len(text) :
                        \E k \in 1..Len(ChunkingKeywords) :
                            HasAt(text, q, ChunkingKeywords[k]) } }

\* The lowest of the offsets.
Lowest(offsets) == CHOOSE p \in offsets : \A q \in offsets : p <= q

\* The words of the text from its earliest keyword on, from its start when
\* it holds none.
TokensFromKeyword(text) ==
    IF KeywordOffsets(text) = {} THEN StrSplit(text)
    ELSE StrSplit(SubSeq(text, Lowest(KeywordOffsets(text)) + 1, Len(text)))

\* C25: for a text of more than chunk_size words and 0 <= overlap <
\* chunk_size, smart_chunking splits the text from the lowest offset of a
\* relevance keyword on (from offset 0 when there is none) and chunk k is
\* the words [k*(chunk_size-overlap), k*(chunk_size-overlap)+chunk_size) of
\* these; consecutive full chunks share exactly overlap words, the first
\* chunk starts with the earliest keyword, and the list is not empty.
C25_WindowsFromEarliestKeyword ==
    ( /\ fcall.fn = "smart_chunking"
      /\ Len(StrSplit(fcall.output.clean_text)) > fcall.input.chunk_size
      /\ 0 <= fcall.input.overlap
      /\ fcall.input.overlap < fcall.input.chunk_size )
    => LET text       == fcall.output.clean_text
           chunks_    == fcall.output.chunks
           chunk_size == fcall.input.chunk_size
           overlap    == fcall.input.overlap
           stride     == chunk_size - overlap
           tokens     == TokensFromKeyword(text)
           Window(k)  == SubSeq(tokens, k * stride + 1,
                                Min(k * stride + chunk_size, Len(tokens)))
       IN  /\ chunks_ # <<>>
           /\ \A k \in 0..(Len(chunks_) - 1) :
                 /\ k * stride < Len(tokens)
                 /\ StrSplit(chunks_[k + 1]) = Window(k)
                 /\ chunks_[k + 1] = StrJoin(<<" ">>, Window(k))
           /\ \A k \in 1..(Len(chunks_) - 1) :
                 LET a == StrSplit(chunks_[k])
                     b == StrSplit(chunks_[k + 1])
                 IN  (Len(a) = chunk_size /\ Len(b) = chunk_size) =>
                        /\ SubSeq(a, chunk_size - overlap + 1, chunk_size)
                              = SubSeq(b, 1, overlap)
                        /\ SubSeq(b, overlap + 1, chunk_size)
                              = SubSeq(tokens, k * stride + overlap + 1,
                                       k * stride + chunk_size)
           /\ KeywordOffsets(text) # {} =>
                 \E i \in 1..Len(ChunkingKeywords) :
                    /\ HasAt(text, Lowest(KeywordOffsets(text)) + 1,
                             ChunkingKeywords[i])
                    /\ HasAt(chunks_[1], 1, ChunkingKeywords[i])

\* C25 witness: in the text of the four words U+0130, "Policy", "a", "b" the
\* keyword occurs at offset 2; the chunks of two words with one word of
\* overlap start one character later, with "olicy a".
C25_Witness ==
    /\ fcall.fn = "smart_chunking"
    /\ fcall.input.chunk_size = 2
    /\ fcall.input.overlap = 1
    /\ fcall.output.clean_text
          = <<DottedCapitalI, " ", "P", "o", "l", "i", "c", "y", " ", "a", " ", "b">>
    /\ KeywordOffsets(fcall.output.clean_text) = {2}
    /\ fcall.output.chunks
          = << <<"o", "l", "i", "c", "y", " ", "a">>, <<"a", " ", "b">>,
               <<"b">> >>

(***************************************************************************)
(* Claims about the parallelism of the fan-outs                            *)
(***************************************************************************)
\* The chunk calls of the agent's fan-out that are in progress.
RunningChunkCalls == {k \in CallsFor("chunk") : calls[k].state = "running"}

\* The tasks of summarize_policy_async whose capability call is in progress.
RunningTasks == {i \in 1..Len(ps_tasks) : ps_tasks[i].state = "running"}

\* C26: in every fan-out (_generate_fast_summary and
\* summarize_policy_async) the chunk calls run in parallel: the capability
\* call of one chunk does not stall its siblings.  While a chunk call is in
\* progress every sibling has been started or can be started, and a sibling
\* in progress can complete.
C26_FanoutRunsInParallel ==
    /\ (entry = Agent /\ pc = "Summarizing" /\ fast_pc = "gather") =>
          /\ CallsFor("chunk") = 1..FanoutSize
          /\ \A k \in RunningChunkCalls :
                ENABLED (\E n \in SummaryLengths : CallReturns(k, n))
    /\ (entry = Summarizer /\ RunningTasks # {}) =>
          \A j \in 1..Len(ps_tasks) :
              ps_tasks[j].state = "pending" => ENABLED SummarizerTaskStarts(j)

\* C26 witness: in summarize_policy_async the first of three tasks is in its
\* capability call and the other two have not been started.
C26_Witness ==
    /\ entry = Summarizer
    /\ Len(ps_tasks) = 3
    /\ ps_chunks[1].chars >= ShortChunkChars
    /\ ps_tasks[1].state = "running"
    /\ ps_tasks[2].state = "pending"
    /\ ps_tasks[3].state = "pending"
    /\ ~ENABLED SummarizerTaskStarts(2)

(***************************************************************************)
(* Termination of summarize_policy_document under fair scheduling          *)
(*                                                                         *)
(* The event loop runs the coroutine whenever it is ready, and the timer   *)
(* of wait_for fires when the awaited summary is not there in time.  The   *)
(* capability is not under the loop's control: nothing obliges a call to   *)
(* return.                                                                 *)
(***************************************************************************)
InitAgent ==
    /\ ComplianceIdle
    /\ AgentConstructed(Agent)
    /\ SummarizerIdle
    /\ fcall = NoCall
    /\ NoCoroutines

\* The steps the event loop takes on its own once they are ready.
CoroutineStep ==
    \/ \E e \in ExtractionErrors : ExtractionFails(e)
    \/ ExtractionReturns
    \/ GatherDone
    \/ AwaitedSummaryDone
    \/ WaitForReturns
    \/ RefineDone
    \/ SectionDone

SpecFair ==
    /\ InitAgent
    /\ [][NextAgent]_vars
    /\ WF_vars(CoroutineStep)
    /\ WF_vars(GlobalTimeout)

\* A request is in progress: summarize_policy_document has not returned.
InProgress == pc \notin {"Idle", "Done", "Failed"}

\* C27: under fair scheduling every invocation of
\* summarize_policy_document eventually returns a result (Done or Failed),
\* even if a capability call never returns, in whichever phase.
C27_EveryRequestReturns == InProgress ~> (pc \in {"Done", "Failed"})

\* C27 witness: the style refinement call will never return and the request
\* waits for it, with no timer left to fire.
C27_Witness ==
    /\ entry = Agent
    /\ pc = "Refining"
    /\ calls[Len(calls)].state = "hung"
    /\ ~ENABLED GlobalTimeout
    /\ ~ENABLED CoroutineStep

(***************************************************************************)
(* Claims about the context a match is classified from                     *)
(***************************************************************************)
FinancialTypes == {"premium_amount", "deductible", "coverage_limit",
                   "estimated_value"}
DateTypes == {"effective_date", "expiry_date", "birth_date",
              "signature_date"}

\* The context window around the position of the match itself.
OwnContext(text, item) == get_context(text, item.at - 1, Len(item.str), 30)

\* The matches, each classified from the window around its own position.
AmountsAtOwnPosition(text) ==
    LET items == ClassifiedAmounts(text)
    IN  [i \in 1..Len(items) |->
            [items[i] EXCEPT !.type =
                classify_financial_context(OwnContext(text, items[i]))]]

DatesAtOwnPosition(text) ==
    LET items == ClassifiedDates(text)
    IN  [i \in 1..Len(items) |->
            [items[i] EXCEPT !.type =
                classify_date_context(OwnContext(text, items[i]))]]

\* The entries of `entities` under the keys `types` are those of `expected`.
SameEntries(entities, expected, types) ==
    \A t \in types :
        /\ (t \in DOMAIN entities) = (t \in DOMAIN expected)
        /\ t \in DOMAIN expected => entities[t] = expected[t]

\* The same string is matched at two positions, and the windows around the
\* two positions classify it differently.
TwiceWithDifferentKeywords(items) ==
    \E i, j \in 1..Len(items) :
        /\ items[i].str = items[j].str
        /\ items[i].at < items[j].at
        /\ items[i].type # items[j].type

\* C28: _extract_financials and _extract_dates classify every match from
\* the context window around that match's own position, also when the same
\* string occurs at two positions with different surrounding keywords: the
\* entities returned are those the own-position classification yields.
C28_ClassifiedAtOwnPosition ==
    fcall.fn = "extract_all_entities" =>
        /\ SameEntries(fcall.output,
                       AssignIfAbsent(AmountsAtOwnPosition(fcall.input)),
                       FinancialTypes)
        /\ SameEntries(fcall.output,
                       AssignAlways(DatesAtOwnPosition(fcall.input)),
                       DateTypes)

\* C28 witness: "$100.00" stands after Premium and, further away than a
\* window, after Deductible; the result holds no deductible.
C28_Witness ==
    /\ fcall.fn = "extract_all_entities"
    /\ TwiceWithDifferentKeywords(AmountsAtOwnPosition(fcall.input))
    /\ "premium_amount" \in DOMAIN fcall.output
    /\ "deductible" \notin DOMAIN fcall.output
    /\ "deductible" \in
          DOMAIN AssignIfAbsent(AmountsAtOwnPosition(fcall.input))
====
